---- MODULE Spec2Model ----
(***************************************************************************)
(* A model of the imagery acquisition and change-detection engine of       *)
(* geoproof: the tile mosaic loader and the DiffViewer effect              *)
(* (src/unnamed/part_000), the pixel diff loop of the same file, the       *)
(* Wayback snapshot deduplicator (src/unnamed/part_005), the timeline and  *)
(* catalog state of GeoProofApp (src/components/GeoProofApp.tsx), the      *)
(* publish route (src/unnamed/part_004) and the reports search route       *)
(* (src/unnamed/part_006).                                                 *)
(*                                                                         *)
(* Numbers the code keeps as IEEE doubles are kept here as exact integers  *)
(* or as numerator/denominator pairs; rounding error of the double         *)
(* arithmetic is not modelled.                                             *)
(***************************************************************************)
EXTENDS Integers, Sequences, FiniteSets, TLC

VARIABLES
    diffIn,     \* the inputs of one pass of the diff loop (buffers, threshold, masks)
    diffOut,    \* what that pass handed to its caller (stats or error, heatmap)
    loader,     \* the calls of loadBboxImageFromTiles, one per (run, side)
    run,        \* DiffViewer: the runs of the effect (inputs, cancelled, position)
    cur,        \* DiffViewer: the number of the latest run of the effect, 0 before the mount
    state,      \* DiffViewer: the component state of useState
    computed,   \* the parent's stats: the argument of the last onComputed call
    artifacts,  \* the parent's artifacts: the run of the last onArtifacts call
    stale,      \* what runs did to the component or its parent while cancelled
    wayback,    \* Wayback: the versions of the capabilities and the probe tile of each
    req,        \* the POST requests for a timeline (part_005)
    optionsCache, \* the module-level cache of part_005, by cache key
    now,        \* Date.now() as part_005 reads it, in minutes
    app,        \* GeoProofApp: the component state, its effects and its requests
    publish,    \* the publish route (part_004): its request, the blobs stored, the transactions sent
    search,     \* the reports search route (part_006): its request, cache, clock, the reports on chain
    fnIn,       \* the arguments of one call of a pure function, tagged with its name
    fnOut       \* what the call returned

diffVars == <<diffIn, diffOut>>
mosaicVars == <<loader>>
viewerVars == <<run, cur, state, computed, artifacts, stale>>
timelineVars == <<wayback, req, optionsCache, now>>
fnVars == <<fnIn, fnOut>>
appVars == <<app>>
routeVars == <<publish, search>>
vars == <<diffVars, mosaicVars, viewerVars, timelineVars, fnVars, appVars, routeVars>>

NULL == "null"

\* An optional value (T | null in the source): <<>> for null, <<x>> for x.
None == <<>>
Some(x) == <<x>>

\* no call of a pure function is under way
FnIdle == fnIn = None /\ fnOut = None

\* GeoProofApp is not mounted
AppIdle == app = None

\* no request has reached the publish route or the reports search route
RoutesIdle == publish = None /\ search = None

Min(a, b) == IF a <= b THEN a ELSE b
Max(a, b) == IF a >= b THEN a ELSE b
Abs(a) == IF a >= 0 THEN a ELSE -a
Max3(a, b, c) == Max(a, Max(b, c))
Min3(a, b, c) == Min(a, Min(b, c))

(***************************************************************************)
(* Pixel diff engine: part_000, isCloudLike / isVeryDark and the loop of   *)
(* DiffViewer's run.  A pixel is <<r, g, b>>, each 0..255.                 *)
(***************************************************************************)

\* luma(r,g,b) = 0.2126 r + 0.7152 g + 0.0722 b, scaled by 10000.
luma10k(p) == 2126 * p[1] + 7152 * p[2] + 722 * p[3]

\* saturation(r,g,b) <= 0.18, with saturation = 0 when max <= 0 and
\* (max - min) / max otherwise; cross-multiplied by 100 * max.
saturationAtMost18(p) ==
    LET mx == Max3(p[1], p[2], p[3])
        mn == Min3(p[1], p[2], p[3])
    IN  IF mx <= 0 THEN TRUE ELSE 100 * (mx - mn) <= 18 * mx

isCloudLike(p) == luma10k(p) >= 2100000 /\ saturationAtMost18(p)

isVeryDark(p) == luma10k(p) <= 180000

\* The condition of the `continue` branch of the loop.
MaskedMutAnd(pa, pb, ignoreClouds, ignoreDark) ==
    \/ ignoreClouds /\ (isCloudLike(pa) /\ isCloudLike(pb))
    \/ ignoreDark /\ (isVeryDark(pa) /\ isVeryDark(pb))
Masked(pa, pb, ignoreClouds, ignoreDark) ==
    \/ ignoreClouds /\ (isCloudLike(pa) \/ isCloudLike(pb))
    \/ ignoreDark /\ (isVeryDark(pa) \/ isVeryDark(pb))

\* 3 * d for d = (|dr| + |dg| + |db|) / 3: d is kept in thirds.
d3(pa, pb) == Abs(pa[1] - pb[1]) + Abs(pa[2] - pb[2]) + Abs(pa[3] - pb[3])

\* hot = d >= threshold
hotMutBelow(pa, pb, threshold) == d3(pa, pb) <= 3 * threshold
hot(pa, pb, threshold) == d3(pa, pb) >= 3 * threshold

\* A store of k/3 into a Uint8ClampedArray element: clamped to 0..255 and
\* rounded to the nearest integer (a value in thirds is never a tie).
ToUint8Clamped3(k) == Max(0, Min(255, (k + 1) \div 3))

\* od[idx + 3] = hot ? Math.min(220, 40 + d) : 0, as stored in the ImageData.
heatAlphaMutNoCap(pa, pb, threshold) ==
    IF hot(pa, pb, threshold) THEN ToUint8Clamped3(120 + d3(pa, pb)) ELSE 0
heatAlpha(pa, pb, threshold) ==
    IF hot(pa, pb, threshold) THEN ToUint8Clamped3(Min(660, 120 + d3(pa, pb))) ELSE 0

\* One iteration of `for (let i = 0; i < n; i++)`, on pixel i (1-based here).
\* acc = [sum3, changed, considered, od]; od holds <<r, g, b, alpha>> per pixel.
diffStepMutCountMasked(acc, pa, pb, in) ==
    [ sum3 |-> acc.sum3 + d3(pa, pb),
      considered |-> acc.considered + 1,
      changed |-> acc.changed + (IF hot(pa, pb, in.threshold) THEN 1 ELSE 0),
      od |-> Append(acc.od, <<255, 0, 0, heatAlpha(pa, pb, in.threshold)>>) ]
diffStep(acc, pa, pb, in) ==
    IF Masked(pa, pb, in.ignoreClouds, in.ignoreDark)
    THEN [acc EXCEPT !.od = Append(@, <<255, 0, 0, 0>>)]
    ELSE [ sum3 |-> acc.sum3 + d3(pa, pb),
           considered |-> acc.considered + 1,
           changed |-> acc.changed + (IF hot(pa, pb, in.threshold) THEN 1 ELSE 0),
           od |-> Append(acc.od, <<255, 0, 0, heatAlpha(pa, pb, in.threshold)>>) ]

RECURSIVE diffLoop(_, _, _)
diffLoop(i, acc, in) ==
    IF i > in.w * in.h THEN acc
    ELSE diffLoop(i + 1, diffStep(acc, in.a[i], in.b[i], in), in)

AllMaskedMsg == "All pixels were masked (cloud/dark). Try disabling masking or changing dates."

\* The tail of run once both buffers are there: the loop, the all-masked throw
\* and the stats.  meanDiff and changedPercent are <<numerator, denominator>>;
\* `considered` is the local counter as the loop left it.
computeDiffMutZeroStats(in) ==
    LET acc == diffLoop(1, [sum3 |-> 0, changed |-> 0, considered |-> 0, od |-> <<>>], in)
    IN  [ error |-> NULL,
          stats |-> Some([ width |-> in.w, height |-> in.h,
                           meanDiff |-> <<acc.sum3, 3 * Max(1, acc.considered)>>,
                           changedPercent |-> <<100 * acc.changed, Max(1, acc.considered)>> ]),
          od |-> Some(acc.od),
          considered |-> acc.considered ]
computeDiff(in) ==
    LET acc == diffLoop(1, [sum3 |-> 0, changed |-> 0, considered |-> 0, od |-> <<>>], in)
    IN  IF acc.considered = 0
        THEN [ error |-> AllMaskedMsg, stats |-> None, od |-> None,
               considered |-> acc.considered ]
        ELSE [ error |-> NULL,
               stats |-> Some([ width |-> in.w, height |-> in.h,
                                meanDiff |-> <<acc.sum3, 3 * acc.considered>>,
                                changedPercent |-> <<100 * acc.changed, acc.considered>> ]),
               od |-> Some(acc.od),
               considered |-> acc.considered ]

\* ---- inputs of the diff pass ----
MaxFreePixels == 2      \* buffers up to this many pixels take every palette colouring
SolidSide == 4          \* side of the solid-colour square buffers

White == <<255, 255, 255>>
Grey == <<100, 100, 100>>
Olive == <<140, 140, 100>>
Dark == <<10, 10, 10>>
Palette == {White, Grey, Olive, Dark}

Thresholds == {0, 1, 20, 27, 255}

DiffBuffers(w, h) ==
    IF w * h <= MaxFreePixels
    THEN [1..(w * h) -> Palette]
    ELSE {[i \in 1..(w * h) |-> c] : c \in Palette}

DiffDims == {<<w, 1>> : w \in 1..MaxFreePixels} \cup {<<SolidSide, SolidSide>>}

DiffInputs ==
    UNION { [ w : {dm[1]}, h : {dm[2]}, a : DiffBuffers(dm[1], dm[2]),
              b : DiffBuffers(dm[1], dm[2]), threshold : Thresholds,
              ignoreClouds : BOOLEAN, ignoreDark : BOOLEAN ] : dm \in DiffDims }

\* diffOut is None until the pass has run, then Some(result of computeDiff).
DiffIdle == diffIn = None /\ diffOut = None

DiffInit == diffIn \in {Some(in) : in \in DiffInputs} /\ diffOut = None

\* The diff pass runs to its end without yielding: one step.
DiffRun ==
    /\ diffIn # None
    /\ diffOut = None
    /\ diffOut' = Some(computeDiff(diffIn[1]))
    /\ UNCHANGED <<diffIn, mosaicVars, viewerVars, timelineVars, fnVars, appVars, routeVars>>

(***************************************************************************)
(* Tile mosaic loader: part_000, loadBboxImageFromTiles.                   *)
(*                                                                         *)
(* Longitudes and latitudes are whole numbers of grid units: the world is  *)
(* Grid units wide, lng = -HalfGrid..HalfGrid stands for -180..180         *)
(* degrees.  The Mercator ordinate of lonLatToWorldPx is monotone          *)
(* decreasing in the latitude and maps the clamped band onto the world's   *)
(* height; here a latitude is given by its Mercator ordinate in grid       *)
(* units, lat = -HalfGrid..HalfGrid standing for the band of clampLat.     *)
(***************************************************************************)
HalfGrid == 32          \* grid units in 180 degrees
Grid == 2 * HalfGrid

TileSize == 256
maxTiles == 36
MaxAttempts == 6
MaxZoom == 24
maxW == 1024

\* Math.max(-85.05112878, Math.min(85.05112878, lat))
clampLat(lat) == Max(-HalfGrid, Min(HalfGrid, lat))

\* lonLatToWorldPx(lon, lat, z).x / (2 ** z * 256), times Grid
worldX(lon) == lon + HalfGrid
\* lonLatToWorldPx(lon, lat, z).y / (2 ** z * 256), times Grid
worldY(lat) == HalfGrid - clampLat(lat)

\* Math.floor(p.x / 256) for p = lonLatToWorldPx(.., z): p.x = w / Grid * 2^z * 256
tileOf(w, z) == (w * 2^z) \div Grid

\* Math.max(0, Math.min(24, Math.round(requestedZoom)))
clampZoom(requestedZoom) == Max(0, Min(MaxZoom, requestedZoom))

\* calc(zoom): the inclusive tile range of the bbox (pMin is its top-left
\* corner: minLng, maxLat; pMax its bottom-right corner: maxLng, minLat).
calcMutSwapLat(bbox, zoom) ==
    LET x0 == tileOf(worldX(bbox[1]), zoom)
        y0 == tileOf(worldY(bbox[2]), zoom)
        x1 == tileOf(worldX(bbox[3]), zoom)
        y1 == tileOf(worldY(bbox[4]), zoom)
    IN  [ x0 |-> x0, y0 |-> y0, x1 |-> x1, y1 |-> y1,
          tilesX |-> x1 - x0 + 1, tilesY |-> y1 - y0 + 1 ]
calc(bbox, zoom) ==
    LET x0 == tileOf(worldX(bbox[1]), zoom)
        y0 == tileOf(worldY(bbox[4]), zoom)
        x1 == tileOf(worldX(bbox[3]), zoom)
        y1 == tileOf(worldY(bbox[2]), zoom)
    IN  [ x0 |-> x0, y0 |-> y0, x1 |-> x1, y1 |-> y1,
          tilesX |-> x1 - x0 + 1, tilesY |-> y1 - y0 + 1 ]

\* c.tilesX * c.tilesY > maxTiles.  The product is taken only when both
\* factors are small (the code multiplies doubles; the model's integers are
\* 32 bits wide): a product of two factors of the same sign exceeds maxTiles
\* as soon as one of them does in absolute value.
overBudget(c) ==
    /\ (c.tilesX > 0 /\ c.tilesY > 0) \/ (c.tilesX < 0 /\ c.tilesY < 0)
    /\ \/ Abs(c.tilesX) > maxTiles
       \/ Abs(c.tilesY) > maxTiles
       \/ c.tilesX * c.tilesY > maxTiles

\* while (z > 0 && c.tilesX * c.tilesY > maxTiles) { z -= 1; c = calc(z); }
RECURSIVE budgetZoom(_, _)
budgetZoomMutNoBudget(bbox, z) == z
budgetZoom(bbox, z) ==
    IF z > 0 /\ overBudget(calc(bbox, z)) THEN budgetZoom(bbox, z - 1) ELSE z

\* sw = c.pMax.x - c.pMin.x and sh = c.pMax.y - c.pMin.y, times Grid
cropW(bbox, z) == (worldX(bbox[3]) - worldX(bbox[1])) * 2^z * TileSize
cropH(bbox, z) == (worldY(bbox[2]) - worldY(bbox[4])) * 2^z * TileSize

\* scale = Math.min(1, maxW / Math.max(sw, 1)); outW = Math.max(1, Math.floor(sw * scale))
outW(bbox, z) ==
    LET sw == cropW(bbox, z)
    IN  IF sw <= maxW * Grid THEN Max(1, sw \div Grid) ELSE maxW
outH(bbox, z) ==
    LET sw == cropW(bbox, z)
        sh == cropH(bbox, z)
    IN  IF sw <= maxW * Grid THEN Max(1, sh \div Grid) ELSE Max(1, (sh * maxW) \div sw)

Sides == {"before", "after"}
MaxRuns == 2            \* effect runs of one DiffViewer (input changes + 1)
Runs == 1..MaxRuns
LoaderIds == Runs \X Sides

NoErr == [kind |-> "none", z |-> -1]

\* A call that was never made.
idleLoader ==
    [ pc |-> "idle", tileTpl |-> NULL, bbox |-> <<0, 0, 0, 0>>, requestedZoom |-> 0,
      allowMissingTiles |-> FALSE, canvasOk |-> TRUE,
      z |-> 0, attempt |-> 0, tx |-> 0, ty |-> 0, done |-> 0, missing |-> 0,
      issued |-> 0, tried |-> <<>>, lastErr |-> NoErr,
      outW |-> 0, outH |-> 0, usedZoom |-> -1 ]

\* total = c.tilesX * c.tilesY, once z is within the budget (or 0)
totalTiles(ld) ==
    LET c == calc(ld.bbox, ld.z) IN
    IF c.tilesX <= 0 \/ c.tilesY <= 0 THEN 0 ELSE c.tilesX * c.tilesY

\* missingRatio >= 0.7 with missingRatio = total > 0 ? missing / total : 1
tooManyMissingMutStrict(missing, total) ==
    IF total > 0 THEN 10 * missing > 9 * total ELSE TRUE
tooManyMissingMutAbove(missing, total) ==
    IF total > 0 THEN 10 * missing > 7 * total ELSE TRUE
tooManyMissing(missing, total) ==
    IF total > 0 THEN 10 * missing >= 7 * total ELSE TRUE

RECURSIVE beginAttempt(_)
RECURSIVE onThrow(_, _)

\* catch (e) { lastErr = e; if (z > 0) { z -= 1; continue; } break; } and, past
\* the loop, throw new Error(msg).  `continue` runs attempt++ and the loop test.
onThrowMutNoRetry(ld, kind) ==
    [ld EXCEPT !.lastErr = [kind |-> kind, z |-> ld.z], !.pc = "failed"]
\* lastErr keeps the first error of the load
onThrowMutFirstErr(ld, kind) ==
    LET e == IF ld.lastErr = NoErr THEN [kind |-> kind, z |-> ld.z] ELSE ld.lastErr IN
    IF ld.z > 0
    THEN IF ld.attempt + 1 < MaxAttempts
         THEN beginAttempt([ld EXCEPT !.lastErr = e, !.z = @ - 1, !.attempt = @ + 1])
         ELSE [ld EXCEPT !.lastErr = e, !.z = @ - 1, !.attempt = @ + 1, !.pc = "failed"]
    ELSE [ld EXCEPT !.lastErr = e, !.pc = "failed"]
onThrow(ld, kind) ==
    LET e == [kind |-> kind, z |-> ld.z] IN
    IF ld.z > 0
    THEN IF ld.attempt + 1 < MaxAttempts
         THEN beginAttempt([ld EXCEPT !.lastErr = e, !.z = @ - 1, !.attempt = @ + 1])
         ELSE [ld EXCEPT !.lastErr = e, !.z = @ - 1, !.attempt = @ + 1, !.pc = "failed"]
    ELSE [ld EXCEPT !.lastErr = e, !.pc = "failed"]

\* After the tile loops of an attempt: the missing-ratio test, the crop and
\* the downscale; returns { imageData, dataUrl, usedZoom: z }.
finishAttempt(ld) ==
    IF ld.allowMissingTiles /\ tooManyMissing(ld.missing, totalTiles(ld))
    THEN onThrow(ld, "Too many missing tiles")
    ELSE [ld EXCEPT !.pc = "returned",
                    !.outW = outW(ld.bbox, ld.z),
                    !.outH = outH(ld.bbox, ld.z),
                    !.usedZoom = ld.z]

\* The body of the for loop from its top to the first fetch: the budget loop,
\* the mosaic canvas, and the request for the first tile of the range.
beginAttempt(ld) ==
    LET z1 == budgetZoom(ld.bbox, ld.z)
        c == calc(ld.bbox, z1)
        l1 == [ld EXCEPT !.z = z1, !.tried = Append(@, z1), !.done = 0,
                         !.missing = 0, !.issued = 0]
    IN  IF ~ld.canvasOk
        THEN onThrow(l1, "Canvas not available")
        ELSE IF c.y0 <= c.y1 /\ c.x0 <= c.x1
             THEN [l1 EXCEPT !.pc = "fetch", !.tx = c.x0, !.ty = c.y0, !.issued = 1]
             ELSE finishAttempt(l1)

\* the tiles of a row are requested together
nextTileMutRow(ld) ==
    LET c == calc(ld.bbox, ld.z)
        l1 == [ld EXCEPT !.done = @ + 1]
    IN  IF ld.tx + 1 <= c.x1
        THEN [l1 EXCEPT !.tx = @ + 1]
        ELSE IF ld.ty + 1 <= c.y1
             THEN [l1 EXCEPT !.tx = c.x0, !.ty = @ + 1, !.issued = @ + c.tilesX]
             ELSE finishAttempt(l1)

\* done += 1 and the next iteration of the tile loops: the next request, or
\* the end of the loops.
nextTile(ld) ==
    LET c == calc(ld.bbox, ld.z)
        l1 == [ld EXCEPT !.done = @ + 1]
    IN  IF ld.tx + 1 <= c.x1
        THEN [l1 EXCEPT !.tx = @ + 1, !.issued = @ + 1]
        ELSE IF ld.ty + 1 <= c.y1
             THEN [l1 EXCEPT !.tx = c.x0, !.ty = @ + 1, !.issued = @ + 1]
             ELSE finishAttempt(l1)

\* What follows `await fetch(url, ...)`.  outcome: "ok" (res.ok, tile decoded
\* and drawn), "status" (a response that is not ok), "timeout" (ctrl.abort()
\* after 10 s: fetch rejects with an AbortError), "throw" (fetch rejected by a
\* network error, or the blob could not be decoded).  A rejection is not
\* caught inside the tile loops: it reaches the catch of the attempt.
AbortedMsg == "The operation was aborted"
FetchOutcomes == {"ok", "status", "timeout", "throw"}
settle(ld, outcome) ==
    CASE outcome = "ok" -> nextTile(ld)
      [] outcome = "status" ->
            IF ~ld.allowMissingTiles
            THEN onThrow(ld, "Tile fetch failed")
            ELSE nextTile([ld EXCEPT !.missing = @ + 1])
      [] outcome = "timeout" -> onThrow(ld, AbortedMsg)
      [] OTHER -> onThrow(ld, "fetch rejected")

\* What the caller of a load has got from it: nothing while the load runs,
\* the result, or the error thrown past the loop,
\* new Error(lastErr.message || "Tile fetch failed").
surfaced(ld) ==
    CASE ld.pc = "failed" -> [threw |-> TRUE, err |-> ld.lastErr]
      [] ld.pc = "returned" -> [threw |-> FALSE, err |-> NoErr]
      [] OTHER -> None

\* The call loadBboxImageFromTiles(tileTpl, bbox, requestedZoom, allowMissingTiles):
\* runs to the first await.
callLoader(tileTpl, bbox, requestedZoom, allowMissingTiles, canvasOk) ==
    beginAttempt([idleLoader EXCEPT !.tileTpl = tileTpl, !.bbox = bbox,
                                    !.requestedZoom = requestedZoom,
                                    !.allowMissingTiles = allowMissingTiles,
                                    !.canvasOk = canvasOk,
                                    !.z = clampZoom(requestedZoom)])

\* ---- inputs of the loader ----
MaxZoomIn == 9          \* requested zooms run from -1 to this
ZoomOver == 25          \* and one above the clamp
ZoomInputs == (-1..MaxZoomIn) \cup {ZoomOver}

BBoxInputs ==
    { <<0, 0, 1, 1>>, <<-1, -1, 1, 2>>,
      <<-HalfGrid, 0, HalfGrid, 1>>, <<-HalfGrid, -HalfGrid, HalfGrid, HalfGrid>> }

Templates == {"tplA", "tplB"}

\* bboxes that are not boxes: no width, no height, neither, west and east
\* swapped, south and north swapped, both swapped
DegenerateInputs ==
    { <<0, 0, 0, 1>>, <<0, 1, 1, 1>>, <<1, 1, 1, 1>>,
      <<1, 0, -1, 1>>, <<0, 2, 1, -1>>, <<1, 2, -1, -1>> }
\* they are loaded at zooms at which the mosaic canvas stays small: without
\* width or height the tile budget does not lower the zoom
MaxBadZoom == 3

\* ---- inputs of calc alone ----
\* longitudes and latitudes at the edges of the world, beyond them and around
\* the origin
CalcCoords == {-HalfGrid - 1, -HalfGrid, -1, 0, 1, HalfGrid, HalfGrid + 1}
CalcInputs ==
    [fn : {"calc"}, bbox : CalcCoords \X CalcCoords \X CalcCoords \X CalcCoords,
     zoom : 0..MaxZoom]

CalcInit == fnIn \in {Some(in) : in \in CalcInputs} /\ fnOut = None

\* calc(z) for the bbox of a call of loadBboxImageFromTiles
CalcCall ==
    /\ fnIn # None
    /\ fnOut = None
    /\ fnOut' = Some(calc(fnIn[1].bbox, fnIn[1].zoom))
    /\ UNCHANGED <<fnIn, diffVars, mosaicVars, viewerVars, timelineVars, appVars, routeVars>>

TheLoader == <<1, "before">>

MosaicIdle == loader = [l \in LoaderIds |-> idleLoader]

\* A caller calls loadBboxImageFromTiles; the call runs to its first await.
MosaicCallOf(l, boxes, zooms) ==
    /\ loader[l].pc = "idle"
    /\ \E bbox \in boxes, zoom \in zooms, allow \in BOOLEAN, canvasOk \in BOOLEAN :
          loader' = [loader EXCEPT ![l] = callLoader("tplA", bbox, zoom, allow, canvasOk)]
    /\ UNCHANGED <<diffVars, viewerVars, timelineVars, fnVars, appVars, routeVars>>
MosaicCall(l) == MosaicCallOf(l, BBoxInputs, ZoomInputs)

\* The tile request in flight settles.
LoaderSettle(l) ==
    /\ loader[l].pc = "fetch"
    /\ \E outcome \in FetchOutcomes :
          loader' = [loader EXCEPT ![l] = settle(@, outcome)]
    /\ UNCHANGED <<diffVars, viewerVars, timelineVars, fnVars, appVars, routeVars>>


(***************************************************************************)
(* DiffViewer: part_000, the effect of lines 321-568 and its run().        *)
(*                                                                         *)
(* A step runs from one completed external event (a tile response, the     *)
(* image loads, a render with new inputs) to the next await of one: the    *)
(* continuations of promises that are already settled run in the same      *)
(* microtask checkpoint, and no effect cleanup runs inside it.             *)
(*                                                                         *)
(* The pixels of the loaded images are the tile server's; one sample pixel *)
(* per image stands for them in the diff pass of a run.                    *)
(***************************************************************************)
ViewerBbox == <<1, 1, 2, 2>>
MaxViewerZoom == 1      \* tileZoom of the viewer's inputs runs from 1 to this

\* Both tile templates or none, both preview URLs or none; allowMissingTiles
\* has its default.
ViewerInputs ==
    { [ beforeUrl |-> IF previews THEN "beforePreview" ELSE NULL,
        afterUrl |-> IF previews THEN "afterPreview" ELSE NULL,
        beforeTileUrlTemplate |-> IF tiles THEN "tplA" ELSE NULL,
        afterTileUrlTemplate |-> IF tiles THEN "tplB" ELSE NULL,
        selectionBbox |-> Some(ViewerBbox),
        allowMissingTiles |-> FALSE,
        tileZoom |-> zoom,
        threshold |-> 20,
        ignoreClouds |-> TRUE,
        ignoreDark |-> FALSE ] :
      previews \in BOOLEAN, tiles \in BOOLEAN, zoom \in 1..MaxViewerZoom }

NoInputs ==
    [ beforeUrl |-> NULL, afterUrl |-> NULL, beforeTileUrlTemplate |-> NULL,
      afterTileUrlTemplate |-> NULL, selectionBbox |-> None, allowMissingTiles |-> FALSE,
      tileZoom |-> 0, threshold |-> 0, ignoreClouds |-> FALSE, ignoreDark |-> FALSE ]

\* Inputs of a run whose mosaics have several tiles: a bbox across the
\* origin (2 x 2 tiles at zoom 1 and above, 1 tile at zoom 0), with or
\* without previews and tolerated missing tiles.
TileRunBbox == <<-1, -1, 1, 2>>
MaxTileRunZoom == 2     \* tileZoom of these inputs runs from 1 to this
TileRunInputs ==
    { [ beforeUrl |-> IF previews THEN "beforePreview" ELSE NULL,
        afterUrl |-> IF previews THEN "afterPreview" ELSE NULL,
        beforeTileUrlTemplate |-> "tplA",
        afterTileUrlTemplate |-> "tplB",
        selectionBbox |-> Some(TileRunBbox),
        allowMissingTiles |-> allow,
        tileZoom |-> zoom,
        threshold |-> 20,
        ignoreClouds |-> TRUE,
        ignoreDark |-> FALSE ] :
      previews \in BOOLEAN, allow \in BOOLEAN, zoom \in 1..MaxTileRunZoom }

\* The key of useMemo spells out every input: two inputs have the same key
\* exactly when they are equal.
keyOf(inputs) == inputs

noRun == [pc |-> "none", cancelled |-> FALSE, inputs |-> NoInputs, tilePair |-> None]

emptyState(key) ==
    [ key |-> key, diffUrl |-> None, beforeCroppedUrl |-> None, afterCroppedUrl |-> None,
      error |-> None, progress |-> None ]

ViewerIdle ==
    /\ run = [r \in Runs |-> noRun]
    /\ cur = 0
    /\ state = emptyState(None)
    /\ computed = None
    /\ artifacts = None
    /\ stale = {}

\* The state of the viewer and of its loaders as one value, so that the parts
\* of run() compose.
World == [ loader |-> loader, run |-> run, state |-> state, computed |-> computed,
           artifacts |-> artifacts, stale |-> stale ]

\* `what` was done by run r: remembered if r was cancelled by then.
noteIfStale(W, r, what) ==
    IF W.run[r].cancelled THEN [W EXCEPT !.stale = @ \cup {what}] ELSE W

\* setState((s) => ({ ...s, key: inputs.key, progress: ... }))
setProgress(W, r) ==
    noteIfStale([W EXCEPT !.state.key = Some(keyOf(W.run[r].inputs)),
                          !.state.progress = Some(r)], r, "setState(progress)")

returnRun(W, r) == [W EXCEPT !.run[r].pc = "done"]

\* catch (e) of run: if (cancelled) return; onComputed(null); setState({ error: msg })
catchRunMutNoCancelCheck(W, r, msg) ==
    LET W1 == noteIfStale(noteIfStale(W, r, "onComputed(null)"), r, "setState(error)")
    IN  returnRun([W1 EXCEPT !.computed = None,
                             !.state = [emptyState(Some(keyOf(W.run[r].inputs)))
                                             EXCEPT !.error = Some([run |-> r, msg |-> msg])]], r)
catchRun(W, r, msg) ==
    IF W.run[r].cancelled THEN returnRun(W, r)
    ELSE returnRun([W EXCEPT !.computed = None,
                             !.state = [emptyState(Some(keyOf(W.run[r].inputs)))
                                             EXCEPT !.error = Some([run |-> r, msg |-> msg])]], r)

\* Lines 461-548 of run, with both buffers loaded from `src` and w x h the
\* working size: the diff pass, onComputed(stats), and under `if (!cancelled)`
\* the state with the mask and the thumbnails, and onArtifacts.
diffTail(W, r, src, w, h, sample) ==
    LET inp == W.run[r].inputs
        res == computeDiff([ w |-> 1, h |-> 1, a |-> <<sample[1]>>, b |-> <<sample[2]>>,
                             threshold |-> inp.threshold, ignoreClouds |-> inp.ignoreClouds,
                             ignoreDark |-> inp.ignoreDark ])
    IN  IF res.error # NULL THEN catchRun(W, r, res.error)
        ELSE LET stats == [res.stats[1] EXCEPT !.width = w, !.height = h]
                 W1 == noteIfStale([W EXCEPT !.computed = Some([run |-> r, stats |-> stats])],
                                   r, "onComputed(stats)")
             IN  IF W.run[r].cancelled THEN returnRun(W1, r)
                 ELSE returnRun(
                        [W1 EXCEPT !.state = [ key |-> Some(keyOf(inp)),
                                               diffUrl |-> Some(r),
                                               beforeCroppedUrl |-> Some(<<r, src>>),
                                               afterCroppedUrl |-> Some(<<r, src>>),
                                               error |-> None,
                                               progress |-> None ],
                                   !.artifacts = Some(r)], r)

\* runPreviewFallback up to its await: the two loadImage calls.
startPreview(W, r) ==
    LET inp == W.run[r].inputs IN
    IF inp.beforeUrl = NULL \/ inp.afterUrl = NULL
    THEN catchRun(W, r, "No preview URLs available for fallback.")
    ELSE [W EXCEPT !.run[r].pc = "preview"]

\* catch (e) of the tile path: fall back to the previews if both are there,
\* else rethrow.
tilesRejectedMutNoFallback(W, r, msg) == catchRun(W, r, msg)
tilesRejected(W, r, msg) ==
    LET inp == W.run[r].inputs IN
    IF inp.beforeUrl # NULL /\ inp.afterUrl # NULL
    THEN startPreview(W, r)
    ELSE catchRun(W, r, msg)

\* After `await Promise.all([...])` of the tile path: if (cancelled) return;
\* then both images are cut to the smaller width and height, from their
\* top-left corners.
tilesResolvedMutNoCancelCheck(W, r, sample) ==
    LET ra == W.loader[<<r, "before">>]
        rb == W.loader[<<r, "after">>]
        W1 == [W EXCEPT !.run[r].tilePair = Some([ra |-> [w |-> ra.outW, h |-> ra.outH, z |-> ra.usedZoom],
                                                  rb |-> [w |-> rb.outW, h |-> rb.outH, z |-> rb.usedZoom]])]
    IN  diffTail(W1, r, "tiles", Min(ra.outW, rb.outW), Min(ra.outH, rb.outH), sample)
tilesResolved(W, r, sample) ==
    IF W.run[r].cancelled THEN returnRun(W, r)
    ELSE tilesResolvedMutNoCancelCheck(W, r, sample)

\* Promise.all of the two loads: rejected as soon as one load has failed,
\* fulfilled once both have returned.
afterLoaders(W, r, sample) ==
    LET la == W.loader[<<r, "before">>]
        lb == W.loader[<<r, "after">>]
    IN  IF W.run[r].pc # "tiles" THEN W
        ELSE IF la.pc = "failed" THEN tilesRejected(W, r, la.lastErr.kind)
        ELSE IF lb.pc = "failed" THEN tilesRejected(W, r, lb.lastErr.kind)
        ELSE IF la.pc = "returned" /\ lb.pc = "returned" THEN tilesResolved(W, r, sample)
        ELSE W

\* Promise.all of run r is about to be fulfilled
awaitsBoth(W, r) ==
    /\ W.run[r].pc = "tiles"
    /\ \A sd \in Sides : W.loader[<<r, sd>>].pc = "returned"

canUseTiles(inp) ==
    /\ inp.beforeTileUrlTemplate # NULL
    /\ inp.afterTileUrlTemplate # NULL
    /\ inp.selectionBbox # None

\* run() from its call to its first await.
startRun(W, r, sample) ==
    LET inp == W.run[r].inputs IN
    IF ~canUseTiles(inp) /\ (inp.beforeUrl = NULL \/ inp.afterUrl = NULL)
    THEN returnRun(W, r)
    ELSE IF canUseTiles(inp)
         THEN LET W1 == setProgress(W, r)
                  W2 == [W1 EXCEPT
                           !.run[r].pc = "tiles",
                           !.loader[<<r, "before">>] =
                               callLoader(inp.beforeTileUrlTemplate, inp.selectionBbox[1],
                                          inp.tileZoom, inp.allowMissingTiles, TRUE),
                           !.loader[<<r, "after">>] =
                               callLoader(inp.afterTileUrlTemplate, inp.selectionBbox[1],
                                          inp.tileZoom, inp.allowMissingTiles, TRUE)]
              IN  afterLoaders(W2, r, sample)
         ELSE startPreview(W, r)

\* The body of the effect: onComputed(null), the cleared state, run().
startEffect(W, r, inp, sample) ==
    startRun([W EXCEPT !.run[r] = [noRun EXCEPT !.inputs = inp],
                       !.computed = None,
                       !.state = emptyState(Some(keyOf(inp)))], r, sample)

\* The cleanup of the effect: cancelled = true.
cleanup(W, r) == IF r \in Runs THEN [W EXCEPT !.run[r].cancelled = TRUE] ELSE W

\* entirely masked (clouds), unchanged, changed
Samples == {<<White, White>>, <<Grey, Grey>>, <<Grey, Olive>>}

Commit(W) ==
    /\ loader' = W.loader
    /\ run' = W.run
    /\ state' = W.state
    /\ computed' = W.computed
    /\ artifacts' = W.artifacts
    /\ stale' = W.stale

\* The component is mounted, or rendered with other inputs (or with equal
\* inputs in new arrays): the cleanup of the previous run, then the effect.
ViewerEffectOf(inputs, runs) ==
    /\ cur < runs
    /\ \E inp \in inputs :
          \* no load returns within its call: the sample is not read
          Commit(startEffect(cleanup(World, cur), cur + 1, inp, <<Grey, Grey>>))
    /\ cur' = cur + 1
    /\ UNCHANGED <<diffVars, timelineVars, fnVars, appVars, routeVars>>
ViewerEffect == ViewerEffectOf(ViewerInputs, MaxRuns)

\* onProgress was called during the step of a loader: at the start of an
\* attempt and after every tile.
progressCalled(old, new) == new.done # old.done \/ Len(new.tried) > Len(old.tried)

\* beforeDone && afterDone of pushProgress
bothDone(W, r) ==
    \A sd \in Sides :
        LET ld == W.loader[<<r, sd>>] IN totalTiles(ld) > 0 /\ ld.done >= totalTiles(ld)

\* the tile server answers every request of the viewer's loads
ViewerOutcomes == {"ok", "status"}

\* A tile request of a load of run r settles; pushProgress stores the progress
\* unless less than 120 ms have passed since the last store (`soon`).
ViewerTileSettle(r, sd) ==
    /\ loader[<<r, sd>>].pc = "fetch"
    /\ \E outcome \in ViewerOutcomes :
          LET W1 == [World EXCEPT !.loader[<<r, sd>>] = settle(@, outcome)]
              called == progressCalled(loader[<<r, sd>>], W1.loader[<<r, sd>>])
          IN  \E soon \in IF called /\ ~bothDone(W1, r) THEN BOOLEAN ELSE {FALSE} :
                LET W2 == IF called /\ ~soon THEN setProgress(W1, r) ELSE W1
                IN  \E sample \in IF awaitsBoth(W2, r) THEN Samples ELSE {<<Grey, Grey>>} :
                      Commit(afterLoaders(W2, r, sample))
    /\ UNCHANGED <<cur, diffVars, timelineVars, fnVars, appVars, routeVars>>

\* Both loadImage calls of runPreviewFallback have settled: both images are
\* loaded, or one failed.  if (cancelled) return leaves a and b null, and run
\* throws "Image load failed".
ViewerPreviewSettle(r) ==
    /\ run[r].pc = "preview"
    /\ \/ Commit(catchRun(World, r, "Failed to load image"))
       \/ /\ run[r].cancelled
          /\ Commit(catchRun(World, r, "Image load failed"))
       \/ /\ ~run[r].cancelled
          /\ \E sample \in Samples : Commit(diffTail(World, r, "preview", 1, 1, sample))
    /\ UNCHANGED <<cur, diffVars, timelineVars, fnVars, appVars, routeVars>>

(***************************************************************************)
(* Snapshot deduplicator: part_005, POST of the Wayback options route.     *)
(*                                                                         *)
(* A version is [id, date]; dates are day numbers.  The bytes of a         *)
(* version's probe tile are named by their SHA-256 (wayback.tileHash).     *)
(***************************************************************************)
batchSize == 10
maxProbes == 180
probeRetries == 2
minLimit == 5
maxLimit == 120
defaultLimit == 60
ttl == 5                \* minutes an entry of optionsCache is served

\* (a, b) => a.date < b.date ? 1 : a.date > b.date ? -1 : b.id - a.id
newestFirst(a, b) == a.date > b.date \/ (a.date = b.date /\ a.id > b.id)
\* (a, b) => a.date < b.date ? -1 : a.date > b.date ? 1 : a.id - b.id
oldestFirstMutById(a, b) == a.id < b.id
oldestFirst(a, b) == a.date < b.date \/ (a.date = b.date /\ a.id < b.id)

\* Array.prototype.sort under a comparator that orders the elements strictly
\* (ids are distinct) puts each element after those that come before it.
\* parseWaybackVersions: the layers of the capabilities, newest first
parseWaybackVersions(layers) ==
    [i \in 1..Cardinality(layers) |->
        CHOOSE x \in layers : Cardinality({y \in layers : newestFirst(y, x)}) = i - 1]

\* [...available].sort(...): oldest first
sortOptions(available) ==
    LET S == {available[i] : i \in 1..Len(available)}
    IN  [i \in 1..Len(available) |->
            CHOOSE x \in S : Cardinality({y \in S : oldestFirst(y, x)}) = i - 1]

\* Math.min(Math.max(Math.round(body.limit), 5), 120), 60 without a number
clampLimit(limit) ==
    IF limit = None THEN defaultLimit ELSE Min(Max(limit[1], minLimit), maxLimit)

idleReq ==
    [ pc |-> "idle", key |-> NULL, limit |-> 0, versions |-> <<>>, i |-> 0,
      probes |-> <<>>, available |-> <<>>, seen |-> {}, probed |-> 0, deduped |-> 0,
      failed |-> 0, timeUp |-> FALSE, processed |-> <<>>, hit |-> FALSE,
      response |-> [status |-> 0] ]

\* versions.slice(i, i + batchSize), i counted from 0
batchOfMutWide(rq) == SubSeq(rq.versions, rq.i + 1, Min(rq.i + batchSize + 1, Len(rq.versions)))
batchOf(rq) == SubSeq(rq.versions, rq.i + 1, Min(rq.i + batchSize, Len(rq.versions)))

\* The response once the probe loop is over: 404 without a version, else the
\* options oldest first with the suggested pair.
finishMutKeepOrder(rq) ==
    IF Len(rq.available) = 0
    THEN [rq EXCEPT !.pc = "responded", !.response = [status |-> 404]]
    ELSE [rq EXCEPT !.pc = "responded",
                    !.response = [ status |-> 200, options |-> rq.available,
                                   beforeId |-> rq.available[1].id,
                                   afterId |-> rq.available[Len(rq.available)].id ]]
finish(rq) ==
    IF Len(rq.available) = 0
    THEN [rq EXCEPT !.pc = "responded", !.response = [status |-> 404]]
    ELSE LET options == sortOptions(rq.available)
         IN  [rq EXCEPT !.pc = "responded",
                        !.response = [ status |-> 200, options |-> options,
                                       beforeId |-> options[1].id,
                                       afterId |-> options[Len(options)].id ]]

\* One result of the batch in `for (const r of results)`, k-th of the batch.
\* Returns the request with stop set when the loop breaks.
takeResultMutNoDedup(rq, v, hash) ==
    LET r1 == [rq EXCEPT !.probed = @ + 1,
                         !.processed = Append(@, [id |-> v.id, hash |-> hash])]
    IN  IF hash # NULL
        THEN [r1 EXCEPT !.seen = @ \cup {hash}, !.available = Append(@, v)]
        ELSE [r1 EXCEPT !.failed = @ + 1]
takeResult(rq, v, hash) ==
    LET r1 == [rq EXCEPT !.probed = @ + 1,
                         !.processed = Append(@, [id |-> v.id, hash |-> hash])]
    IN  IF hash # NULL
        THEN IF hash \in rq.seen
             THEN [r1 EXCEPT !.deduped = @ + 1]
             ELSE [r1 EXCEPT !.seen = @ \cup {hash}, !.available = Append(@, v)]
        ELSE [r1 EXCEPT !.failed = @ + 1]

\* the breaks at the end of the body of the result loop; a duplicate
\* `continue`s past them
breaksAfter(rq, hash, wasSeen) ==
    /\ ~(hash # NULL /\ wasSeen)
    /\ (rq.probed >= maxProbes \/ rq.timeUp)

RECURSIVE resultLoop(_, _, _)
resultLoop(rq, batch, k) ==
    IF k > Len(batch) \/ Len(rq.available) >= rq.limit THEN rq
    ELSE LET hash == rq.probes[k].hash
             r1 == takeResult(rq, batch[k], hash)
         IN  IF breaksAfter(r1, hash, hash \in rq.seen) THEN r1
             ELSE resultLoop(r1, batch, k + 1)

RECURSIVE batchLoop(_)
\* The head of `for (let i = 0; i < versions.length; i += batchSize)`: the
\* three breaks, then the probes of the batch are issued together.
batchLoopMutNoBudget(rq) ==
    IF \/ rq.i >= Len(rq.versions)
       \/ Len(rq.available) >= rq.limit
       \/ rq.timeUp
    THEN finish(rq)
    ELSE [rq EXCEPT !.pc = "probing",
                    !.probes = [k \in 1..Len(batchOf(rq)) |->
                                   [attempt |-> 0, hash |-> NULL, settled |-> FALSE]]]
batchLoop(rq) ==
    IF \/ rq.i >= Len(rq.versions)
       \/ Len(rq.available) >= rq.limit
       \/ rq.probed >= maxProbes
       \/ rq.timeUp
    THEN finish(rq)
    ELSE [rq EXCEPT !.pc = "probing",
                    !.probes = [k \in 1..Len(batchOf(rq)) |->
                                   [attempt |-> 0, hash |-> NULL, settled |-> FALSE]]]

\* Promise.all of the batch is fulfilled: the result loop, i += batchSize,
\* the next batch or the response.
afterBatch(rq) ==
    batchLoop([resultLoop(rq, batchOf(rq), 1) EXCEPT !.i = @ + batchSize])

\* probeTileHashWithRetry: an attempt of the probe has ended with the hash of
\* the tile (ok) or with null (not ok, an exception, the 6 s abort).
probeSettleMutRetryHash(p, ok, hash) ==
    IF ok THEN [p EXCEPT !.hash = IF p.attempt = 0 THEN hash ELSE "H1", !.settled = TRUE]
    ELSE IF p.attempt < probeRetries THEN [p EXCEPT !.attempt = @ + 1]
    ELSE [p EXCEPT !.settled = TRUE]
probeSettleMutExtraRetry(p, ok, hash) ==
    IF ok THEN [p EXCEPT !.hash = hash, !.settled = TRUE]
    ELSE IF p.attempt < probeRetries + 1 THEN [p EXCEPT !.attempt = @ + 1]
    ELSE [p EXCEPT !.settled = TRUE]
probeSettle(p, ok, hash) ==
    IF ok THEN [p EXCEPT !.hash = hash, !.settled = TRUE]
    ELSE IF p.attempt < probeRetries THEN [p EXCEPT !.attempt = @ + 1]
    ELSE [p EXCEPT !.settled = TRUE]

\* probeTileHashWithRetry against a tile server that answers a version the
\* same way every time: with its tile (hash), or never (NULL)
RECURSIVE probeToEnd(_, _)
probeToEnd(p, hash) ==
    IF p.settled THEN p ELSE probeToEnd(probeSettle(p, hash # NULL, hash), hash)

\* `${zoom}:${tile.x}:${tile.y}:${bbox...}:${limit}` for the one place and
\* zoom the requests ask about
cacheKeyOf(limit) == <<"place", limit>>

\* ---- inputs of the deduplicator ----
MaxVersions == 3        \* versions in the capabilities
Hashes == {"H1", "H2"}
ReqIds == {"q1", "q2"}  \* the POST requests that can be in progress together
TheReq == "q1"
LimitInputs == {None, Some(1)}
TimelineKeys == {cacheKeyOf(clampLimit(l)) : l \in LimitInputs}

\* Catalogues of n versions with ids 1..n: the ids do not follow the dates
\* and two versions share a date.
dateOf(n, id) == (n - id) \div 2 + 1
WaybackOf(n) ==
    [ layers : { {[id |-> id, date |-> dateOf(n, id)] : id \in 1..n} },
      tileHash : [1..n -> Hashes] ]
WaybackInputs == UNION { WaybackOf(n) : n \in 0..MaxVersions }

MaxRaceVersions == 2    \* versions in the capabilities when requests race

\* Long catalogues: n versions, the tile of version id being the tile of
\* every version with the same id modulo `period`, and the tiles of the
\* versions whose id is a multiple of `down` (if not 0) being out of reach.
LongVersions == 185     \* versions of a long catalogue
HashPeriods == {1, 4, 7, 70, LongVersions}
DownPeriods == {0, 3}
LongCatalogue(n, period, down) ==
    [ layers |-> {[id |-> id, date |-> dateOf(n, id)] : id \in 1..n},
      tileHash |-> [id \in 1..n |->
                      IF down > 0 /\ id % down = 0 THEN NULL ELSE ToString(id % period)] ]

\* Catalogues of more than one batch
MaxExtra == 2           \* versions beyond the first batch
BatchHashPeriods == {1, 4}
BatchDownPeriods == {0, 7}
BatchesInit ==
    /\ \E period \in BatchHashPeriods, down \in BatchDownPeriods :
          wayback = LongCatalogue(batchSize + MaxExtra, period, down)
    /\ req = [q \in ReqIds |-> idleReq]
    /\ optionsCache = [k \in TimelineKeys |-> None]
    /\ now = 0

BudgetInit ==
    /\ \E period \in HashPeriods, down \in DownPeriods :
          wayback = LongCatalogue(LongVersions, period, down)
    /\ req = [q \in ReqIds |-> idleReq]
    /\ optionsCache = [k \in TimelineKeys |-> None]
    /\ now = 0

TimelineIdle ==
    /\ wayback = [layers |-> {}, tileHash |-> <<>>]
    /\ req = [q \in ReqIds |-> idleReq]
    /\ optionsCache = [k \in TimelineKeys |-> None]
    /\ now = 0

TimelineInit ==
    /\ wayback \in WaybackInputs
    /\ req = [q \in ReqIds |-> idleReq]
    /\ optionsCache = [k \in TimelineKeys |-> None]
    /\ now = 0

RaceInit ==
    /\ wayback \in WaybackOf(MaxRaceVersions)
    /\ req = [q \in ReqIds |-> idleReq]
    /\ optionsCache = [k \in TimelineKeys |-> None]
    /\ now = 0

\* `cached && cached.expiresAt > Date.now()`
freshMutNoExpiry(cached) == cached # None
fresh(cached) == cached # None /\ cached[1].expiresAt > now

\* POST up to its first probe: the body is read, the capabilities are fetched
\* (capsOk: the fetch is answered with an ok response) and parsed, the cache
\* is looked up; on a miss the first batch is issued.  The key of a request
\* that is answered before line 154 is the one its body would have given.
TimelinePostCaps(q, limits, caps) ==
    /\ req[q].pc = "idle"
    /\ \E limit \in limits, capsOk \in caps :
          LET key == cacheKeyOf(clampLimit(limit))
              cached == optionsCache[key] IN
          IF ~capsOk \/ parseWaybackVersions(wayback.layers) = <<>>
          THEN req' = [req EXCEPT ![q] = [@ EXCEPT !.pc = "responded", !.key = key,
                                                    !.response = [status |-> 502]]]
          ELSE IF fresh(cached)
          THEN req' = [req EXCEPT ![q] = [@ EXCEPT !.pc = "responded", !.key = key,
                                                    !.hit = TRUE,
                                                    !.response = cached[1].value]]
          ELSE req' = [req EXCEPT ![q] =
                         batchLoop([idleReq EXCEPT !.key = key,
                                                   !.limit = clampLimit(limit),
                                                   !.versions = parseWaybackVersions(wayback.layers)])]
    /\ UNCHANGED <<wayback, optionsCache, now, diffVars, mosaicVars, viewerVars, fnVars, appVars, routeVars>>

\* the capabilities are served
TimelinePostOf(q, limits) == TimelinePostCaps(q, limits, {TRUE})

TimelinePost(q) == TimelinePostOf(q, LimitInputs)

\* optionsCache.set(cacheKey, { expiresAt: Date.now() + 5 * 60_000, value })
\* before a 200 response
cacheAfterMutAnyResponse(cache, rq) ==
    IF rq.pc = "responded"
    THEN [cache EXCEPT ![rq.key] = Some([expiresAt |-> now + ttl, value |-> rq.response])]
    ELSE cache
cacheAfter(cache, rq) ==
    IF rq.pc = "responded" /\ rq.response.status = 200
    THEN [cache EXCEPT ![rq.key] = Some([expiresAt |-> now + ttl, value |-> rq.response])]
    ELSE cache

\* An attempt of the probe of the k-th version of the batch ends.
TimelineProbeSettleOfMutTakeOnSettle(q, k, flaky) ==
    /\ req[q].pc = "probing"
    /\ k \in 1..Len(req[q].probes)
    /\ ~req[q].probes[k].settled
    /\ \E ok \in IF flaky THEN BOOLEAN
                  ELSE {wayback.tileHash[batchOf(req[q])[k].id] # NULL} :
          LET v == batchOf(req[q])[k]
              r1 == [req[q] EXCEPT !.probes[k] = probeSettle(@, ok, wayback.tileHash[v.id])]
              r2 == IF r1.probes[k].settled /\ Len(r1.available) < r1.limit
                    THEN takeResult(r1, v, r1.probes[k].hash) ELSE r1
              r3 == IF \A j \in 1..Len(r2.probes) : r2.probes[j].settled
                    THEN batchLoop([r2 EXCEPT !.i = @ + batchSize]) ELSE r2
          IN  /\ req' = [req EXCEPT ![q] = r3]
              /\ optionsCache' = cacheAfter(optionsCache, r3)
    /\ UNCHANGED <<wayback, now, diffVars, mosaicVars, viewerVars, fnVars, appVars, routeVars>>
TimelineProbeSettleOf(q, k, flaky) ==
    /\ req[q].pc = "probing"
    /\ k \in 1..Len(req[q].probes)
    /\ ~req[q].probes[k].settled
    /\ \E ok \in IF flaky THEN BOOLEAN
                  ELSE {wayback.tileHash[batchOf(req[q])[k].id] # NULL} :
          LET v == batchOf(req[q])[k]
              r1 == [req[q] EXCEPT !.probes[k] = probeSettle(@, ok, wayback.tileHash[v.id])]
              r2 == IF \A j \in 1..Len(r1.probes) : r1.probes[j].settled
                    THEN afterBatch(r1) ELSE r1
          IN  /\ req' = [req EXCEPT ![q] = r2]
              /\ optionsCache' = cacheAfter(optionsCache, r2)
    /\ UNCHANGED <<wayback, now, diffVars, mosaicVars, viewerVars, fnVars, appVars, routeVars>>

\* any attempt may fail or succeed
TimelineProbeSettle(q, k) == TimelineProbeSettleOf(q, k, TRUE)

\* Promise.all of the batch is fulfilled, the tile server having answered
\* every probe of the batch as the catalogue says: TimelineProbeSettle for
\* each probe of the batch until it has settled, in one step.
TimelineBatchSettles(q) ==
    /\ req[q].pc = "probing"
    /\ LET batch == batchOf(req[q])
           r1 == [req[q] EXCEPT !.probes =
                     [k \in 1..Len(batch) |-> probeToEnd(@[k], wayback.tileHash[batch[k].id])]]
           r2 == afterBatch(r1)
       IN  /\ req' = [req EXCEPT ![q] = r2]
           /\ optionsCache' = cacheAfter(optionsCache, r2)
    /\ UNCHANGED <<wayback, now, diffVars, mosaicVars, viewerVars, fnVars, appVars, routeVars>>

\* Date.now() - startedAt passes maxProbeMs (30 s) while the probes are out.
TimelineBudgetElapses(q) ==
    /\ req[q].pc = "probing"
    /\ ~req[q].timeUp
    /\ req' = [req EXCEPT ![q].timeUp = TRUE]
    /\ UNCHANGED <<wayback, optionsCache, now, diffVars, mosaicVars, viewerVars, fnVars, appVars, routeVars>>

\* Date.now() passes expiresAt of an entry (5 minutes after its insert).  The
\* entry stays in the Map, but `cached.expiresAt > Date.now()` is its only
\* reader, so from now on it is as good as absent.
TimelineCacheExpires(key) ==
    /\ optionsCache[key] # None
    /\ optionsCache' = [optionsCache EXCEPT ![key] = None]
    /\ UNCHANGED <<wayback, req, now, diffVars, mosaicVars, viewerVars, fnVars, appVars, routeVars>>

\* The client has its response; the handler's locals are gone.
TimelineForget(q) ==
    /\ req[q].pc = "responded"
    /\ req' = [req EXCEPT ![q] = idleReq]
    /\ UNCHANGED <<wayback, optionsCache, now, diffVars, mosaicVars, viewerVars, fnVars, appVars, routeVars>>

\* A minute passes on the server's clock.
MaxNow == 7             \* minutes the clock runs
TimelineClockTick ==
    /\ now < MaxNow
    /\ now' = now + 1
    /\ UNCHANGED <<wayback, req, optionsCache, diffVars, mosaicVars, viewerVars, fnVars, appVars, routeVars>>

\* A catalogue of more versions than the smallest limit, each with a tile of
\* its own: the timelines of the two limits differ.
CacheVersions == 6
CacheInit ==
    /\ wayback = LongCatalogue(CacheVersions, CacheVersions + 1, 0)
    /\ req = [q \in ReqIds |-> idleReq]
    /\ optionsCache = [k \in TimelineKeys |-> None]
    /\ now = 0

(***************************************************************************)
(* Candidate selector: part_002, pickClosest and pickClearest.             *)
(*                                                                         *)
(* Times are in hours, so a day is 24 of them.  A feature's datetime is    *)
(* absent, or a string that Date parses to ms or does not parse; its cloud *)
(* cover is absent, or a finite number or some other value.                *)
(***************************************************************************)
msPerDay == 24

\* datetimeMs: null without a datetime or when Date cannot parse it
datetimeMs(f) ==
    IF f.datetime = None THEN None
    ELSE IF f.datetime[1].parses THEN Some(f.datetime[1].ms) ELSE None

\* cloudCoverPct: the eo:cloud_cover when it is a finite number, else null
cloudCoverPct(f) ==
    IF f.cloud = None THEN None
    ELSE IF f.cloud[1].finite THEN Some(f.cloud[1].pct) ELSE None

\* dist < bestDist, bestDist being Infinity (None) before the first hit
closerMutOrEqual(dist, bestDist) == bestDist = None \/ dist <= bestDist[1]
closer(dist, bestDist) == bestDist = None \/ dist < bestDist[1]

RECURSIVE closestScan(_, _, _, _, _)
closestScan(features, i, targetMs, best, bestDist) ==
    IF i > Len(features) THEN best
    ELSE LET ms == datetimeMs(features[i])
         IN  IF ms = None THEN closestScan(features, i + 1, targetMs, best, bestDist)
             ELSE LET dist == Abs(ms[1] - targetMs)
                  IN  IF closer(dist, bestDist)
                      THEN closestScan(features, i + 1, targetMs, Some(features[i]), Some(dist))
                      ELSE closestScan(features, i + 1, targetMs, best, bestDist)

pickClosest(features, targetMs) == closestScan(features, 1, targetMs, None, None)

\* daysBetween(ms, targetMs) * msPerDay, to stay in the integers
dtDaysMs(ms, targetMs) == Abs(ms - targetMs)

\* features.map(...).filter(Boolean): the features with both fields, in order
RECURSIVE clearCandidates(_, _)
clearCandidates(features, targetMs) ==
    IF features = <<>> THEN <<>>
    ELSE LET f == Head(features)
             ms == datetimeMs(f)
             cloud == cloudCoverPct(f)
             rest == clearCandidates(Tail(features), targetMs)
         IN  IF ms = None \/ cloud = None THEN rest
             ELSE <<[f |-> f, cloud |-> cloud[1], dtDaysMs |-> dtDaysMs(ms[1], targetMs)]>> \o rest

\* candidates.filter((c) => c.dtDays <= maxOffsetDays)
withinOffsetMutAll(c, maxOffsetDays) == TRUE
withinOffset(c, maxOffsetDays) == c.dtDaysMs <= maxOffsetDays * msPerDay

nearOf(candidates, maxOffsetDays) ==
    SelectSeq(candidates, LAMBDA c : withinOffset(c, maxOffsetDays))

\* (a.cloud - b.cloud) || (a.dtDays - b.dtDays) is negative: a sorts before b
clearerMutTimeFirst(a, b) ==
    a.dtDaysMs < b.dtDaysMs \/ (a.dtDaysMs = b.dtDaysMs /\ a.cloud < b.cloud)
clearer(a, b) == a.cloud < b.cloud \/ (a.cloud = b.cloud /\ a.dtDaysMs < b.dtDaysMs)

\* pool.sort(...): the sort is stable, c goes behind what it does not precede
RECURSIVE insertClear(_, _)
insertClear(c, sorted) ==
    IF sorted = <<>> THEN <<c>>
    ELSE IF clearer(c, Head(sorted)) THEN <<c>> \o sorted
    ELSE <<Head(sorted)>> \o insertClear(c, Tail(sorted))

RECURSIVE sortPool(_, _)
sortPool(pool, sorted) ==
    IF pool = <<>> THEN sorted ELSE sortPool(Tail(pool), insertClear(Head(pool), sorted))

pickClearest(features, targetMs, maxOffsetDays) ==
    LET candidates == clearCandidates(features, targetMs)
        near == nearOf(candidates, maxOffsetDays)
        pool == IF Len(near) > 0 THEN near ELSE candidates
    IN  IF Len(pool) = 0 THEN None ELSE Some(sortPool(pool, <<>>)[1].f)

\* ---- inputs of the selector ----
MaxFeatures == 3        \* features in the search result
Jan01 == 24
Jan03 == 72
Jan05 == 120
Jan10 == 240
DatetimeInputs ==
    {None, Some([parses |-> FALSE, ms |-> 0])}
        \cup {Some([parses |-> TRUE, ms |-> ms]) : ms \in {Jan01, Jan05, Jan10}}
CloudInputs ==
    {None, Some([finite |-> FALSE, pct |-> 0])}
        \cup {Some([finite |-> TRUE, pct |-> pct]) : pct \in {0, 10}}
OffsetInputs == {2, 7}

\* the features of a search result: ids in order, properties as drawn
featuresOf(n, dt, cl) == [i \in 1..n |-> [id |-> i, datetime |-> dt[i], cloud |-> cl[i]]]

SelectInit ==
    /\ \E n \in 0..MaxFeatures :
          \E dt \in [1..n -> DatetimeInputs] :
              \/ \E t \in {Jan03, Jan05} :
                     fnIn = Some([fn |-> "pickClosest",
                                  features |-> featuresOf(n, dt, [i \in 1..n |-> None]),
                                  targetMs |-> t, maxOffsetDays |-> 0])
              \/ \E cl \in [1..n -> CloudInputs], off \in OffsetInputs :
                     fnIn = Some([fn |-> "pickClearest", features |-> featuresOf(n, dt, cl),
                                  targetMs |-> Jan03, maxOffsetDays |-> off])
    /\ fnOut = None

\* the route calls the selector on the features of the search result
SelectCall ==
    /\ fnIn # None
    /\ fnOut = None
    /\ fnOut' = Some(IF fnIn[1].fn = "pickClosest"
                     THEN pickClosest(fnIn[1].features, fnIn[1].targetMs)
                     ELSE pickClearest(fnIn[1].features, fnIn[1].targetMs, fnIn[1].maxOffsetDays))
    /\ UNCHANGED <<fnIn, diffVars, mosaicVars, viewerVars, timelineVars, appVars, routeVars>>

(***************************************************************************)
(* Report helpers: src/lib/suiReports.ts, parseBboxParam, bboxIntersects.  *)
(*                                                                         *)
(* The string given to parseBboxParam is the sequence of its parts between *)
(* the commas.  A part is a decimal number (kind "num"), nothing at all    *)
(* ("empty"), white space only ("blank"), the word Infinity ("inf") or     *)
(* some other text ("word"); a number may have white space around it.      *)
(***************************************************************************)
\* Number(x.trim()): the empty string converts to 0, text to NaN
toNumberMutEmptyNaN(part) ==
    CASE part.kind = "num" -> [finite |-> TRUE, val |-> part.val]
      [] OTHER -> [finite |-> FALSE, val |-> 0]
toNumber(part) ==
    CASE part.kind = "num" -> [finite |-> TRUE, val |-> part.val]
      [] part.kind \in {"empty", "blank"} -> [finite |-> TRUE, val |-> 0]
      [] OTHER -> [finite |-> FALSE, val |-> 0]

\* !b: null, or the string of no characters (one part, empty)
falsyParam(b) == b = None \/ (Len(b[1]) = 1 /\ b[1][1].kind = "empty")

parseBboxParam(b) ==
    IF falsyParam(b) THEN None
    ELSE LET parts == [i \in 1..Len(b[1]) |-> toNumber(b[1][i])]
         IN  IF Len(parts) # 4 \/ \E i \in 1..Len(parts) : ~parts[i].finite THEN None
             ELSE IF parts[1].val >= parts[3].val \/ parts[2].val >= parts[4].val THEN None
             ELSE Some(<<parts[1].val, parts[2].val, parts[3].val, parts[4].val>>)

bboxIntersectsMutStrict(a, b) == a[1] < b[3] /\ a[3] > b[1] /\ a[2] < b[4] /\ a[4] > b[2]
bboxIntersects(a, b) == a[1] <= b[3] /\ a[3] >= b[1] /\ a[2] <= b[4] /\ a[4] >= b[2]

\* ---- inputs of the report helpers ----
MaxParts == 5           \* parts of the string given to parseBboxParam
BoxMax == 2             \* coordinates of the boxes run from 0 to this
PartInputs ==
    {[kind |-> "num", val |-> v] : v \in 0..BoxMax}
        \cup {[kind |-> k, val |-> 0] : k \in {"empty", "blank", "inf", "word"}}
ParamInputs ==
    {None} \cup {Some(parts) : parts \in UNION {[1..n -> PartInputs] : n \in 1..MaxParts}}
BoxInputs == (0..BoxMax) \X (0..BoxMax) \X (0..BoxMax) \X (0..BoxMax)

ReportInputs ==
    [fn : {"parseBboxParam"}, b : ParamInputs]
        \cup [fn : {"bboxIntersects"}, a : BoxInputs, b : BoxInputs]

ReportInit == fnIn \in {Some(in) : in \in ReportInputs} /\ fnOut = None

\* the reports search route parses its bbox parameter and filters by it
ReportCall ==
    /\ fnIn # None
    /\ fnOut = None
    /\ fnOut' = Some(IF fnIn[1].fn = "parseBboxParam"
                     THEN parseBboxParam(fnIn[1].b)
                     ELSE bboxIntersects(fnIn[1].a, fnIn[1].b))
    /\ UNCHANGED <<fnIn, diffVars, mosaicVars, viewerVars, timelineVars, appVars, routeVars>>

(***************************************************************************)
(* Report helpers, continued: extractCreatedObjectIdsFromTxPage.           *)
(*                                                                         *)
(* A transaction page is null (not an object, or its data not an array) or *)
(* the sequence of its transactions.  A value the code tests with          *)
(* typeof x === "string" or Array.isArray(x) is an option: None when the   *)
(* test fails.  An object type is the sequence of the segments of its      *)
(* path (package, module, struct); the filter is one segment.              *)
(***************************************************************************)
\* objectType.includes(opts.objectTypeIncludes)
objectTypeIncludes(objectType, filter) ==
    \E i \in 1..Len(objectType) : objectType[i] = filter

\* the tests of one object change: type, objectId, objectType
changeKeptMutAnyType(c, filter) ==
    /\ c.objectId # None
    /\ c.objectType # None
    /\ objectTypeIncludes(c.objectType[1], filter)
changeKept(c, filter) ==
    /\ c.type = "created"
    /\ c.objectId # None
    /\ c.objectType # None
    /\ objectTypeIncludes(c.objectType[1], filter)

\* for (const c of objectChanges) { ...; out.push({ objectId, digest }); }
RECURSIVE pushChanges(_, _, _, _, _)
pushChanges(objectChanges, j, digest, filter, out) ==
    IF j > Len(objectChanges) THEN out
    ELSE pushChanges(objectChanges, j + 1, digest, filter,
                     IF changeKept(objectChanges[j], filter)
                     THEN Append(out, [objectId |-> objectChanges[j].objectId[1],
                                       digest |-> digest])
                     ELSE out)

\* for (const tx of data) { ... }
RECURSIVE pushTxs(_, _, _, _)
pushTxs(data, i, filter, out) ==
    IF i > Len(data) THEN out
    ELSE pushTxs(data, i + 1, filter,
                 IF data[i].digest = None \/ data[i].objectChanges = None THEN out
                 ELSE pushChanges(data[i].objectChanges[1], 1, data[i].digest[1], filter, out))

extractCreatedObjectIdsFromTxPage(txPage, filter) ==
    IF txPage = None THEN <<>> ELSE pushTxs(txPage[1], 1, filter, <<>>)

\* ---- inputs of extractCreatedObjectIdsFromTxPage ----
MaxTxs == 2             \* transactions in a page
MaxChanges == 2         \* object changes in a transaction
ReportType == <<"0xabc", "geoproof_move", "ChangeReport">>
OtherType == <<"0xabc", "other", "Other">>
ChangeInputs ==
    [type : {"created", "mutated"}, objectId : {None, Some("0x1")},
     objectType : {None, Some(ReportType), Some(OtherType)}]
ChangesInputs ==
    {None} \cup {Some(cs) : cs \in UNION {[1..n -> ChangeInputs] : n \in 0..MaxChanges}}
TxInputs == [digest : {None, Some("tx1")}, objectChanges : ChangesInputs]

\* the digests and the object ids of a page are made distinct: a string
\* digest of the i-th transaction is <<"tx", i>>, a string id of its j-th
\* change <<"0x", i, j>>
labelled(data) ==
    [i \in 1..Len(data) |->
        [digest |-> IF data[i].digest = None THEN None ELSE Some(<<"tx", i>>),
         objectChanges |->
            IF data[i].objectChanges = None THEN None
            ELSE Some([j \in 1..Len(data[i].objectChanges[1]) |->
                        [data[i].objectChanges[1][j] EXCEPT
                            !.objectId = IF @ = None THEN None ELSE Some(<<"0x", i, j>>)]])]]

ExtractInit ==
    /\ \/ fnIn = Some([fn |-> "extract", txPage |-> None, filter |-> "ChangeReport"])
       \/ \E n \in 0..MaxTxs : \E data \in [1..n -> TxInputs] :
             fnIn = Some([fn |-> "extract", txPage |-> Some(labelled(data)),
                          filter |-> "ChangeReport"])
    /\ fnOut = None

\* the reports route extracts the created reports of a page of transactions
ExtractCall ==
    /\ fnIn # None
    /\ fnOut = None
    /\ fnOut' = Some(extractCreatedObjectIdsFromTxPage(fnIn[1].txPage, fnIn[1].filter))
    /\ UNCHANGED <<fnIn, diffVars, mosaicVars, viewerVars, timelineVars, appVars, routeVars>>

(***************************************************************************)
(* GeoProofApp: the Wayback timeline effect, the timeline sliders and the  *)
(* STAC search of components/GeoProofApp.tsx.                               *)
(*                                                                         *)
(* An effective bbox is named by a number, 0 for null.  Dates are day      *)
(* numbers.  A render and the effects it runs are one step with the state  *)
(* update that causes them; timers and requests take steps of their own.   *)
(***************************************************************************)
clampInt(n, lo, hi) == Min(Max(n, lo), hi)

\* options.findIndex((o) => o.id === id), counted from 0, -1 if absent
findIndex(options, id) ==
    IF \E i \in 1..Len(options) : options[i].id = id
    THEN (CHOOSE i \in 1..Len(options) :
             options[i].id = id /\ \A j \in 1..(i - 1) : options[j].id # id) - 1
    ELSE -1

StartDate0 == 0         \* useState("2024-06-01")
EndDate0 == 9           \* useState("2024-06-10")
tileZoom0 == 16         \* useState(16)

\* an instance of the timeline effect: its timer, its AbortController and
\* the deps it closed over
noEffect == [pc |-> "none", aborted |-> FALSE, bbox |-> 0, zoom |-> 0, res |-> None]
noSearch == [pc |-> "idle", bbox |-> 0, secondary |-> FALSE]

MaxEffects == 3         \* runs of the timeline effect
Effects == 1..MaxEffects

\* The effect of lines 246-256 and, in the same commit, the cleanup and the
\* body of the debounce effect of lines 259-284: the drafts follow the
\* committed ids and a commit timer is set when there is a timeline.
syncDrafts(a) ==
    IF a.wayback = None
    THEN [a EXCEPT !.draftBefore = None, !.draftAfter = None, !.commit = FALSE]
    ELSE LET w == a.wayback[1] IN
         [a EXCEPT !.draftBefore = Some(Max(0, findIndex(w.options, w.beforeId))),
                   !.draftAfter = Some(Max(0, findIndex(w.options, w.afterId))),
                   !.commit = TRUE]

\* setWayback(v) and the render that follows
setWayback(a, v) == IF a.wayback = v THEN a ELSE syncDrafts([a EXCEPT !.wayback = v])

\* the cleanup of the timeline effect: clearTimeout(t); ctrl.abort()
cleanupTimelineMutNoAbort(a) ==
    IF a.eff = 0 \/ a.tl[a.eff].pc = "skipped" THEN a
    ELSE [a EXCEPT !.tl[a.eff].pc = IF @ = "timer" THEN "cleared" ELSE @]
cleanupTimeline(a) ==
    IF a.eff = 0 \/ a.tl[a.eff].pc = "skipped" THEN a
    ELSE [a EXCEPT !.tl[a.eff].pc = IF @ = "timer" THEN "cleared" ELSE @,
                   !.tl[a.eff].aborted = TRUE]

\* the body of the timeline effect (302-356) for the deps of this render
timelineEffect(a) ==
    LET e == a.eff + 1 IN
    IF ~a.showWayback \/ a.bbox = 0
    THEN [setWayback(a, None) EXCEPT !.eff = e, !.tl[e] = [noEffect EXCEPT !.pc = "skipped"],
                                     !.waybackLoading = FALSE]
    ELSE [a EXCEPT !.eff = e,
                   !.tl[e] = [noEffect EXCEPT !.pc = "timer", !.bbox = a.bbox, !.zoom = a.zoom]]

\* a render in which showWayback, effectiveBbox or tileZoom differ from the
\* previous render: the cleanup of the effect, then its body
depsChanged(a) == timelineEffect(cleanupTimeline(a))

\* the component after its first render and its effects
mountedApp ==
    depsChanged(
      [ bbox |-> 1, zoom |-> tileZoom0, showWayback |-> TRUE, showSecondary |-> TRUE,
        wayback |-> None, waybackLoading |-> FALSE, warning |-> None,
        startDate |-> StartDate0, endDate |-> EndDate0,
        draftBefore |-> None, draftAfter |-> None, commit |-> FALSE,
        eff |-> 0, tl |-> [e \in Effects |-> noEffect],
        stacS2 |-> None, stacLandsat |-> None, loading |-> FALSE, error |-> None,
        search |-> noSearch, waybackStats |-> None ])

\* resetComputed(), as far as the Wayback diff goes
resetComputed(a) == [a EXCEPT !.waybackStats = None]

\* The callback of setTimeout(..., 350) up to its fetch.
timerFired(a, e) ==
    [resetComputed(setWayback(a, None))
        EXCEPT !.waybackLoading = TRUE, !.warning = None,
               !.stacS2 = None, !.stacLandsat = None, !.tl[e].pc = "fetch"]

\* `finally { setWaybackLoading(false) }` and the end of the callback
endCallback(a, e) == [a EXCEPT !.waybackLoading = FALSE, !.tl[e].pc = "done"]

\* catch (e): an AbortError is dropped, any other error is shown
caught(a, e, aborted) ==
    endCallback(IF aborted THEN a ELSE [a EXCEPT !.warning = Some("request error")], e)

\* `await fetch(...)` is over: rejected with an AbortError when the signal
\* is aborted, else rejected by the network (`down`) or fulfilled with `res`.
fetchSettled(a, e, down, res) ==
    IF a.tl[e].aborted THEN caught(a, e, TRUE)
    ELSE IF down THEN caught(a, e, FALSE)
    ELSE [a EXCEPT !.tl[e].pc = "json", !.tl[e].res = Some(res)]

\* Lines 335-347: the check of the response and its acceptance.
acceptTimeline(a, e, data) ==
    IF Len(data.options) < 2
    THEN endCallback([a EXCEPT !.warning = Some("too few snapshots")], e)
    ELSE LET before == IF findIndex(data.options, data.beforeId) >= 0
                       THEN data.options[findIndex(data.options, data.beforeId) + 1]
                       ELSE data.options[1]
             after == IF findIndex(data.options, data.afterId) >= 0
                      THEN data.options[findIndex(data.options, data.afterId) + 1]
                      ELSE data.options[Len(data.options)]
             a1 == setWayback(a, Some([ query |-> data.query, options |-> data.options,
                                        beforeId |-> data.beforeId, afterId |-> data.afterId ]))
         IN  endCallback([a1 EXCEPT !.startDate = before.date, !.endDate = after.date], e)

\* `await res.json()` is over: rejected with an AbortError when the signal
\* is aborted, else the body is there.
jsonSettled(a, e) ==
    LET res == a.tl[e].res[1] IN
    IF a.tl[e].aborted THEN caught(a, e, TRUE)
    ELSE IF ~res.ok THEN endCallback([a EXCEPT !.warning = Some("request failed")], e)
    ELSE acceptTimeline(a, e, res)

\* Lines 262-281: the callback of the commit timer.
commitIdxMutSwapped(max, draftBefore, draftAfter) ==
    LET beforeIdx == clampInt(draftBefore, 0, max)
        afterIdx == clampInt(draftAfter, 0, max)
        safeBefore == Min(beforeIdx, Max(0, afterIdx - 1))
        safeAfter == Max(afterIdx, Min(max, safeBefore + 1))
    IN  <<safeAfter, safeBefore>>
commitIdx(max, draftBefore, draftAfter) ==
    LET beforeIdx == clampInt(draftBefore, 0, max)
        afterIdx == clampInt(draftAfter, 0, max)
        safeBefore == Min(beforeIdx, Max(0, afterIdx - 1))
        safeAfter == Max(afterIdx, Min(max, safeBefore + 1))
    IN  <<safeBefore, safeAfter>>

commitFired(a) ==
    LET w == a.wayback[1]
        idx == commitIdx(Len(w.options) - 1, a.draftBefore[1], a.draftAfter[1])
        before == w.options[idx[1] + 1]
        after == w.options[idx[2] + 1]
        a0 == [a EXCEPT !.commit = FALSE]
    IN  IF before.id = w.beforeId /\ after.id = w.afterId THEN a0
        ELSE [setWayback(a0, Some([w EXCEPT !.beforeId = before.id, !.afterId = after.id]))
                 EXCEPT !.startDate = before.date, !.endDate = after.date,
                        !.waybackStats = None]

\* waybackIndices.max
sliderMax(a) == Max(0, Len(a.wayback[1].options) - 1)

\* a draft changes: the debounce effect clears its timer and sets a new one
setDraftBefore(a, idx) ==
    IF a.draftBefore = Some(idx) THEN a ELSE [a EXCEPT !.draftBefore = Some(idx), !.commit = TRUE]
setDraftAfter(a, idx) ==
    IF a.draftAfter = Some(idx) THEN a ELSE [a EXCEPT !.draftAfter = Some(idx), !.commit = TRUE]

\* onChange of the two range inputs (1084-1088, 1108-1112)
slideBefore(a, value) ==
    setDraftBefore(a, Min(clampInt(value, 0, sliderMax(a)), Max(0, a.draftAfter[1] - 1)))
slideAfter(a, value) ==
    setDraftAfter(a, Max(clampInt(value, 0, sliderMax(a)), Min(sliderMax(a), a.draftBefore[1] + 1)))

\* the sliders and the two buttons are rendered (line 1067)
slidersShown(a) ==
    a.showWayback /\ a.wayback # None /\ a.draftBefore # None /\ a.draftAfter # None

\* runSearch up to `await Promise.allSettled(promises)`, with a bbox
searchStarted(a) ==
    LET w == a.wayback[1]
        hasWindow == a.showWayback /\ a.wayback # None
                     /\ findIndex(w.options, w.beforeId) >= 0
                     /\ findIndex(w.options, w.afterId) >= 0
        a1 == [a EXCEPT !.error = None, !.stacS2 = None, !.stacLandsat = None,
                        !.warning = None]
    IN  IF a.bbox = 0 THEN [a1 EXCEPT !.error = Some("Pick a region")]
        ELSE [a1 EXCEPT !.loading = TRUE,
                        !.startDate = IF hasWindow
                                      THEN w.options[findIndex(w.options, w.beforeId) + 1].date
                                      ELSE @,
                        !.endDate = IF hasWindow
                                    THEN w.options[findIndex(w.options, w.afterId) + 1].date
                                    ELSE @,
                        !.search = [pc |-> "s2", bbox |-> a.bbox, secondary |-> a.showSecondary]]

\* Lines 560-579: the Sentinel-2 response.  Nothing compares the bbox the
\* search was made for with the bbox of this render.
s2Settled(a, ok) ==
    IF ~ok
    THEN [a EXCEPT !.error = Some("Sentinel-2 request failed"), !.loading = FALSE,
                   !.search = noSearch]
    ELSE IF a.search.secondary
         THEN [a EXCEPT !.stacS2 = Some([bbox |-> a.search.bbox]), !.search.pc = "ls"]
         ELSE [a EXCEPT !.stacS2 = Some([bbox |-> a.search.bbox]), !.loading = FALSE,
                        !.search = noSearch]

\* Lines 581-604: the Landsat response.
lsSettled(a, ok) ==
    IF ok
    THEN [a EXCEPT !.stacLandsat = Some([bbox |-> a.search.bbox]), !.loading = FALSE,
                   !.search = noSearch]
    ELSE [a EXCEPT !.warning = Some("Landsat request failed"), !.loading = FALSE,
                   !.search = noSearch]

\* ---- inputs of GeoProofApp ----
MaxBbox == 2            \* effective bboxes 1..MaxBbox, and 0 for none
AppZooms == {tileZoom0, tileZoom0 + 1}
MaxOptions == 3         \* options of a timeline response

\* What the options route answers for (bbox, zoom): an error, or the
\* response of `finish` for n unique versions (ids that do not follow the
\* dates, two versions sharing a date).
optionsResponse(bbox, zoom, n) ==
    LET r == finish([idleReq EXCEPT !.available =
                        [i \in 1..n |-> [id |-> i, date |-> dateOf(n, i)]]]).response
    IN  [ ok |-> TRUE, query |-> [bbox |-> bbox, zoom |-> zoom], options |-> r.options,
          beforeId |-> r.beforeId, afterId |-> r.afterId ]
AppResponses(bbox, zoom) ==
    {[ok |-> FALSE]} \cup {optionsResponse(bbox, zoom, n) : n \in 1..MaxOptions}

AppInit == app = mountedApp

BboxChanges == {"click", "place", "radius"}

\* The effective bbox changes: by a map click or Clear (which also drop the
\* catalog results, the timeline and the computed diffs), by a place
\* selection or a mode switch (which drop the catalog results and the
\* computed diffs), or by the radius slider (which drops nothing).
AppChangeBbox(kind) ==
    /\ app.eff < MaxEffects
    /\ \E b \in (IF kind = "radius" THEN 1..MaxBbox ELSE 0..MaxBbox) \ {app.bbox} :
          /\ kind = "radius" => app.bbox # 0
          /\ LET a1 == CASE kind = "click" ->
                              resetComputed(setWayback([app EXCEPT !.error = None, !.stacS2 = None,
                                                                   !.stacLandsat = None,
                                                                   !.warning = None], None))
                         [] kind = "place" ->
                              resetComputed([app EXCEPT !.stacS2 = None, !.stacLandsat = None,
                                                        !.warning = None])
                         [] OTHER -> app
             IN  app' = depsChanged([a1 EXCEPT !.bbox = b])
    /\ UNCHANGED <<diffVars, mosaicVars, viewerVars, timelineVars, fnVars, routeVars>>

\* onChange of the tile zoom slider (1394)
AppSetTileZoom ==
    /\ app.eff < MaxEffects
    /\ \E z \in AppZooms \ {app.zoom} : app' = depsChanged([app EXCEPT !.zoom = z])
    /\ UNCHANGED <<diffVars, mosaicVars, viewerVars, timelineVars, fnVars, routeVars>>

\* onChange of the Wayback checkbox (1270-1278)
AppToggleWayback ==
    /\ app.eff < MaxEffects
    /\ app' = depsChanged(setWayback([app EXCEPT !.showWayback = ~@], None))
    /\ UNCHANGED <<diffVars, mosaicVars, viewerVars, timelineVars, fnVars, routeVars>>

\* The 350 ms timer of effect e runs out.
AppTimerFires(e) ==
    /\ app.tl[e].pc = "timer"
    /\ app' = timerFired(app, e)
    /\ UNCHANGED <<diffVars, mosaicVars, viewerVars, timelineVars, fnVars, routeVars>>

\* The fetch of effect e settles.
AppFetchSettles(e) ==
    /\ app.tl[e].pc = "fetch"
    /\ \E down \in BOOLEAN, res \in AppResponses(app.tl[e].bbox, app.tl[e].zoom) :
          app' = fetchSettled(app, e, down, res)
    /\ UNCHANGED <<diffVars, mosaicVars, viewerVars, timelineVars, fnVars, routeVars>>

\* The body of the response of effect e is read, or its reading is aborted.
AppJsonSettles(e) ==
    /\ app.tl[e].pc = "json"
    /\ app' = jsonSettled(app, e)
    /\ UNCHANGED <<diffVars, mosaicVars, viewerVars, timelineVars, fnVars, routeVars>>

\* A range input is dragged to `value`.
AppSlide ==
    /\ slidersShown(app)
    /\ \E value \in 0..sliderMax(app) :
          \/ app' = slideBefore(app, value)
          \/ app' = slideAfter(app, value)
    /\ UNCHANGED <<diffVars, mosaicVars, viewerVars, timelineVars, fnVars, routeVars>>

\* onClick of Oldest (1120-1124)
AppOldest ==
    /\ slidersShown(app)
    /\ app' = setDraftBefore(app, 0)
    /\ UNCHANGED <<diffVars, mosaicVars, viewerVars, timelineVars, fnVars, routeVars>>

\* onClick of Newest (1131-1135)
AppNewest ==
    /\ slidersShown(app)
    /\ app' = setDraftAfter(app, Len(app.wayback[1].options) - 1)
    /\ UNCHANGED <<diffVars, mosaicVars, viewerVars, timelineVars, fnVars, routeVars>>

\* The 250 ms timer of the debounce effect runs out.
AppCommitFires ==
    /\ app.commit
    /\ app' = commitFired(app)
    /\ UNCHANGED <<diffVars, mosaicVars, viewerVars, timelineVars, fnVars, routeVars>>

\* onClick of "Find imagery", enabled as line 1306 says
AppRunSearch ==
    /\ ~app.loading
    /\ ~(app.showWayback /\ (app.waybackLoading \/ app.wayback = None))
    /\ app' = searchStarted(app)
    /\ UNCHANGED <<diffVars, mosaicVars, viewerVars, timelineVars, fnVars, routeVars>>

\* Both STAC requests have settled and the Sentinel-2 body is read.
AppS2Settles ==
    /\ app.search.pc = "s2"
    /\ \E ok \in BOOLEAN : app' = s2Settled(app, ok)
    /\ UNCHANGED <<diffVars, mosaicVars, viewerVars, timelineVars, fnVars, routeVars>>

\* The Landsat body is read.
AppLsSettles ==
    /\ app.search.pc = "ls"
    /\ \E ok \in BOOLEAN : app' = lsSettled(app, ok)
    /\ UNCHANGED <<diffVars, mosaicVars, viewerVars, timelineVars, fnVars, routeVars>>

(***************************************************************************)
(* Publish route: part_004, POST.  A report draft is hashed, the evidence  *)
(* bundle is uploaded to Walrus, and the report is anchored on Sui.        *)
(*                                                                         *)
(* stableStringify is imported from lib/stableJson and sha256 from         *)
(* node:crypto: both are functions of their argument and stay              *)
(* uninterpreted.  `store` is what Walrus holds, `chain` the transactions  *)
(* submitted to Sui, each with the number of the request that sent it.     *)
(***************************************************************************)
stableStringify(v) == <<"stable", v>>
sha256Hex(bytes) == <<"sha256", bytes>>

\* getString(rd, path): the string at the path, "" when there is none
getString(rd, k1, k2) ==
    IF k1 \in DOMAIN rd /\ k2 \in DOMAIN rd[k1] THEN rd[k1][k2] ELSE ""

\* JSON.stringify(bb) of the draft's bbox, "null" when there is none
bboxJsonOf(rd) == IF "bbox" \in DOMAIN rd THEN <<"json", rd.bbox>> ELSE "null"

\* the artifacts of the evidence bundle (150-175)
artifactsOf(body) ==
    LET mode == IF body.artifactsMode # NULL THEN body.artifactsMode
                ELSE IF body.includeArtifacts THEN "all" ELSE "none"
    IN  CASE mode = "all" -> [before |-> body.artifacts, after |-> body.artifacts,
                              diff |-> body.artifacts]
          [] mode = "diff" -> [before |-> NULL, after |-> NULL, diff |-> body.artifacts]
          [] OTHER -> [before |-> NULL, after |-> NULL, diff |-> NULL]

\* the evidence bundle (144-176), without its createdAt
evidenceOf(body) ==
    [ reportSha256 |-> sha256Hex(stableStringify(body.reportDraft)),
      reportDraft |-> body.reportDraft,
      artifacts |-> artifactsOf(body) ]

idlePublish ==
    [ pc |-> "idle", n |-> 1, body |-> None, reportSha256 |-> <<>>, walrusBlobId |-> "",
      response |-> [status |-> 0], store |-> {}, chain |-> <<>> ]

\* POST up to `await client.walrus.writeBlob(...)`.  body: None for a body
\* that is not JSON.
publishPosted(p, body, keyOk, packageOk) ==
    IF body = None \/ ~body[1].hasReportDraft
    THEN [p EXCEPT !.pc = "responded", !.response = [status |-> 400]]
    ELSE IF ~keyOk \/ ~packageOk
    THEN [p EXCEPT !.pc = "responded", !.response = [status |-> 500]]
    ELSE [p EXCEPT !.pc = "upload", !.body = body,
                   !.reportSha256 = sha256Hex(stableStringify(body[1].reportDraft))]

\* the arguments of create_report (241-253), without createdAtMs
txArgs(p, walrusBlobId) ==
    LET rd == p.body[1].reportDraft IN
    [ bboxJson |-> bboxJsonOf(rd),
      startDate |-> getString(rd, "window", "startDate"),
      endDate |-> getString(rd, "window", "endDate"),
      sourceRequested |-> getString(rd, "imagery", "sourceRequested"),
      variant |-> getString(rd, "imagery", "variant"),
      walrusBlobId |-> walrusBlobId,
      reportSha256 |-> p.reportSha256 ]

\* keypair.signAndExecuteTransaction({ transaction: tx, client })
submitTx(p, walrusBlobId) ==
    [p EXCEPT !.pc = "sign", !.walrusBlobId = walrusBlobId,
              !.chain = Append(@, [n |-> p.n, executed |-> FALSE, args |-> txArgs(p, walrusBlobId)])]

\* writeBlob has settled: with the id of the stored blob, or rejected (the
\* diagnostics of the catch only shape the 502 response).
uploadSettledMutAnchorsAnyway(p, ok, blobId) ==
    IF ok
    THEN submitTx([p EXCEPT !.store = @ \cup {[blobId |-> blobId,
                                                 bytes |-> evidenceOf(p.body[1])]}], blobId)
    ELSE submitTx(p, "")
uploadSettled(p, ok, blobId) ==
    IF ok
    THEN submitTx([p EXCEPT !.store = @ \cup {[blobId |-> blobId,
                                                 bytes |-> evidenceOf(p.body[1])]}], blobId)
    ELSE [p EXCEPT !.pc = "responded",
                   !.response = [status |-> 502, error |-> "Walrus upload failed"]]

\* signAndExecuteTransaction has settled: executed with a digest, or thrown.
txSettled(p, ok, digest, createdObjectId) ==
    IF ok
    THEN [p EXCEPT !.pc = "responded",
                   !.chain[Len(p.chain)].executed = TRUE,
                   !.response = [ status |-> 200, walrusBlobId |-> p.walrusBlobId,
                                  reportSha256 |-> p.reportSha256,
                                  digest |-> digest, createdObjectId |-> createdObjectId ]]
    ELSE [p EXCEPT !.pc = "responded",
                   !.response = [ status |-> 502, error |-> "Sui anchor failed",
                                  walrusBlobId |-> p.walrusBlobId,
                                  reportSha256 |-> p.reportSha256 ]]

\* ---- inputs of the publish route ----
MaxPublishes == 2       \* requests, one after the other
\* a draft that is JSON null has no path in it
nullDraft == [null |-> TRUE]
DraftInputs ==
    { nullDraft,
      [ bbox |-> <<1, 1, 2, 2>>, window |-> [startDate |-> "2024-06-01", endDate |-> "2024-06-10"],
        imagery |-> [sourceRequested |-> "wayback", variant |-> "closest"] ],
      [ bbox |-> <<1, 1, 2, 2>>, window |-> [startDate |-> "2024-06-01"],
        imagery |-> [sourceRequested |-> "sentinel-2-l2a", variant |-> "clearest"] ] }
PublishBodies ==
    {None} \cup
    { Some([ hasReportDraft |-> has, reportDraft |-> IF has THEN d ELSE nullDraft,
             artifactsMode |-> mode, includeArtifacts |-> FALSE, artifacts |-> "png" ]) :
        has \in BOOLEAN, d \in DraftInputs, mode \in {NULL, "diff"} }
BlobIds == {"blobA", "blobB"}

PublishInit == publish = idlePublish /\ search = None

PublishPost ==
    /\ publish.pc = "idle"
    /\ \E body \in PublishBodies, keyOk \in BOOLEAN, packageOk \in BOOLEAN :
          publish' = publishPosted(publish, body, keyOk, packageOk)
    /\ UNCHANGED <<search, diffVars, mosaicVars, viewerVars, timelineVars, fnVars, appVars>>

PublishUploadSettles ==
    /\ publish.pc = "upload"
    /\ \E ok \in BOOLEAN, blobId \in BlobIds :
          publish' = uploadSettled(publish, ok, blobId)
    /\ UNCHANGED <<search, diffVars, mosaicVars, viewerVars, timelineVars, fnVars, appVars>>

PublishTxSettles ==
    /\ publish.pc = "sign"
    /\ \E ok \in BOOLEAN, digest \in {"", "digest"}, created \in {None, Some("0xreport")} :
          publish' = txSettled(publish, ok, digest, created)
    /\ UNCHANGED <<search, diffVars, mosaicVars, viewerVars, timelineVars, fnVars, appVars>>

\* The client has its response; the next request arrives.
PublishNext ==
    /\ publish.pc = "responded"
    /\ publish.n < MaxPublishes
    /\ publish' = [idlePublish EXCEPT !.n = publish.n + 1, !.store = publish.store,
                                      !.chain = publish.chain]
    /\ UNCHANGED <<search, diffVars, mosaicVars, viewerVars, timelineVars, fnVars, appVars>>

(***************************************************************************)
(* Reports search route: part_006, GET.  The route queries the Sui         *)
(* transactions that called create_report, fetches the report objects      *)
(* they created, filters them by the bbox parameter and caches the         *)
(* response.                                                               *)
(*                                                                         *)
(* `search` holds the clock (in units of 5 s), the cache, the requests in  *)
(* progress and the reports on chain.  The JSON text stored in a report is *)
(* text that does not parse (kind "text"), a value that is not an array    *)
(* ("other") or an array of parts as in parseBboxParam.  An error thrown   *)
(* by the Sui client has a status and a message that holds "429" or not.   *)
(***************************************************************************)
CACHE_TTL_MS == 3       \* 15 s

isTooManyRequests(e) == e.status = 429 \/ e.message429

\* Number(limit ?? "20"), 20 unless finite and positive, at most 50
searchLimit(raw) ==
    IF raw = None THEN 20 ELSE IF raw[1] <= 0 THEN 20 ELSE Min(raw[1], 50)

\* `${network}|${bbox ? bbox.join(",") : ""}|${cursor ?? ""}|${limit}`
searchKeyOf(bbox, cursor, limit) == <<"testnet", bbox, cursor, limit>>

\* JSON.parse(bboxJson) is an array of 4 finite numbers
bboxParsedOf(bboxJson) ==
    IF /\ bboxJson.kind = "array"
       /\ Len(bboxJson.items) = 4
       /\ \A i \in 1..4 : bboxJson.items[i].kind = "num"
    THEN Some([i \in 1..4 |-> bboxJson.items[i].val])
    ELSE None

\* the test before items.push
skipped(bbox, bboxParsed) ==
    bbox # None /\ bboxParsed # None /\ ~bboxIntersects(bbox[1], bboxParsed[1])

\* for (let i = 0; i < objs.length; i++) { ... items.push(...) }
RECURSIVE itemLoop(_, _, _, _, _)
itemLoop(objs, createdIds, bbox, i, items) ==
    IF i > Len(objs) THEN items
    ELSE LET d == objs[i]
             bboxParsed == bboxParsedOf(d.bboxJson)
         IN  itemLoop(objs, createdIds, bbox, i + 1,
                      IF ~d.exists \/ i > Len(createdIds) THEN items
                      ELSE IF skipped(bbox, bboxParsed) THEN items
                      ELSE Append(items, [ objectId |-> d.objectId,
                                           digest |-> createdIds[i].digest,
                                           bboxJson |-> d.bboxJson,
                                           bboxParsed |-> bboxParsed ]))

\* the page of transactions the fullnode answers with: one transaction for
\* each report, which created it
txPageOf(reports) ==
    Some([i \in 1..Len(reports) |->
            [ digest |-> Some(<<"tx", i>>),
              objectChanges |-> Some(<< [ type |-> "created", objectId |-> Some(<<"0x", i, 1>>),
                                          objectType |-> Some(ReportType) ] >>) ]])

\* client.multiGetObjects({ ids }): one answer for each id, in their order;
\* the answer for an object that is gone has no data
multiGetObjects(reports, ids) ==
    [i \in 1..Len(ids) |->
        [ objectId |-> ids[i].objectId, exists |-> reports[ids[i].objectId[2]].exists,
          bboxJson |-> reports[ids[i].objectId[2]].bboxJson ]]

idleSearch ==
    [ pc |-> "idle", key |-> <<>>, bbox |-> None, attempt |-> 0, queries |-> 0,
      errors |-> <<>>, createdIds |-> <<>>, hit |-> FALSE, response |-> [status |-> 0] ]

\* GET up to the first `await client.queryTransactionBlocks(...)`
searchGot(s, rq, bboxParam, limitRaw, hasPackageId) ==
    IF ~hasPackageId THEN [rq EXCEPT !.pc = "responded", !.response = [status |-> 500]]
    ELSE LET bbox == parseBboxParam(bboxParam)
             key == searchKeyOf(bbox, None, searchLimit(limitRaw))
             cached == s.cache[key]
         IN  IF cached # None /\ s.now - cached[1].ts < CACHE_TTL_MS
             THEN [rq EXCEPT !.pc = "responded", !.key = key, !.bbox = bbox, !.hit = TRUE,
                             !.response = cached[1].value]
             ELSE [rq EXCEPT !.pc = "query", !.key = key, !.bbox = bbox, !.queries = 1]

failure(e, what) ==
    IF isTooManyRequests(e) THEN [status |-> 429, error |-> "Too Many Requests"]
    ELSE [status |-> 502, error |-> what]

\* queryTransactionBlocks has thrown e
queryFailedMutRetryAny(rq, e) ==
    IF rq.attempt < 2
    THEN [rq EXCEPT !.pc = "sleep", !.errors = Append(@, e)]
    ELSE [rq EXCEPT !.pc = "responded", !.errors = Append(@, e),
                    !.response = failure(e, "Failed to query Sui")]
queryFailed(rq, e) ==
    IF isTooManyRequests(e) /\ rq.attempt < 2
    THEN [rq EXCEPT !.pc = "sleep", !.errors = Append(@, e)]
    ELSE [rq EXCEPT !.pc = "responded", !.errors = Append(@, e),
                    !.response = failure(e, "Failed to query Sui")]

\* queryTransactionBlocks has answered: with a page, or with nothing
queryAnswered(rq, txs) ==
    IF txs = None
    THEN [rq EXCEPT !.pc = "responded",
                    !.response = [status |-> 502, error |-> "Failed to query Sui"]]
    ELSE [rq EXCEPT !.pc = "objects",
                    !.createdIds = extractCreatedObjectIdsFromTxPage(txs, "ChangeReport")]

\* sleep(250 * (attempt + 1) * (attempt + 1)) is over: `continue`
woken(rq) == [rq EXCEPT !.pc = "query", !.attempt = @ + 1, !.queries = @ + 1]

\* multiGetObjects has answered: the item loop and the response
objectsAnswered(rq, objs) ==
    [rq EXCEPT !.pc = "responded",
               !.response = [ status |-> 200, bbox |-> rq.bbox,
                              items |-> itemLoop(objs, rq.createdIds, rq.bbox, 1, <<>>) ]]

\* cache.set(cacheKey, { ts: Date.now(), value: out }) with the response
cacheSet(s, rq) ==
    IF rq.pc = "responded" /\ ~rq.hit /\ rq.response.status = 200
    THEN [s.cache EXCEPT ![rq.key] = Some([ts |-> s.now, value |-> rq.response])]
    ELSE s.cache

\* ---- inputs of the reports search ----
MaxReports == 2         \* reports on chain
MaxSearchNow == 4       \* the clock runs to 20 s
SearchReqs == {"s1"}    \* the requests are served one after the other
TheSearch == "s1"
num(v) == [kind |-> "num", val |-> v]
FilterParam == Some(<<num(1), num(1), num(2), num(2)>>)
BboxParams == {None, FilterParam, Some(<<num(2), num(1), num(1), num(2)>>)}
LimitParams == {None, Some(0)}
StoredBboxes ==
    { [kind |-> "text", items |-> <<>>],
      [kind |-> "other", items |-> <<>>],
      [kind |-> "array", items |-> <<num(1), num(1), num(2)>>],
      [kind |-> "array", items |-> <<num(1), num(1), num(2), [kind |-> "word", val |-> 0]>>],
      [kind |-> "array", items |-> <<num(2), num(2), num(3), num(3)>>],
      [kind |-> "array", items |-> <<num(3), num(3), num(4), num(4)>>] }
ReportsOnChain == [exists : BOOLEAN, bboxJson : StoredBboxes]
SuiErrors == [status : {0, 429}, message429 : BOOLEAN]
SearchKeys ==
    { searchKeyOf(parseBboxParam(b), None, searchLimit(l)) : b \in BboxParams, l \in LimitParams }

SearchStart(reports) ==
    /\ search = [ now |-> 0, cache |-> [k \in SearchKeys |-> None],
                  req |-> [q \in SearchReqs |-> idleSearch], reports |-> reports ]
    /\ publish = None

\* one report on chain, inside the filter or outside
SearchInit ==
    \E stored \in {b \in StoredBboxes : bboxParsedOf(b) # None} :
        SearchStart(<<[exists |-> TRUE, bboxJson |-> stored]>>)

\* any reports on chain
ItemsInit ==
    \E n \in 0..MaxReports : \E reports \in [1..n -> ReportsOnChain] : SearchStart(reports)

SearchGet(q) ==
    /\ search.req[q].pc = "idle"
    /\ \E bboxParam \in BboxParams, limitRaw \in LimitParams, hasPackageId \in BOOLEAN :
          search' = [search EXCEPT
                        !.req[q] = searchGot(search, @, bboxParam, limitRaw, hasPackageId)]
    /\ UNCHANGED <<publish, diffVars, mosaicVars, viewerVars, timelineVars, fnVars, appVars>>

SearchQuerySettlesOf(q, errors) ==
    /\ search.req[q].pc = "query"
    /\ \/ \E e \in errors :
             search' = [search EXCEPT !.req[q] = queryFailed(@, e)]
       \/ \E txs \in {None, txPageOf(search.reports)} :
             search' = [search EXCEPT !.req[q] = queryAnswered(@, txs)]
    /\ UNCHANGED <<publish, diffVars, mosaicVars, viewerVars, timelineVars, fnVars, appVars>>

SearchQuerySettles(q) == SearchQuerySettlesOf(q, SuiErrors)

SearchWakes(q) ==
    /\ search.req[q].pc = "sleep"
    /\ search' = [search EXCEPT !.req[q] = woken(@)]
    /\ UNCHANGED <<publish, diffVars, mosaicVars, viewerVars, timelineVars, fnVars, appVars>>

SearchObjectsSettleOf(q, errors) ==
    /\ search.req[q].pc = "objects"
    /\ \/ \E e \in errors :
             search' = [search EXCEPT
                           !.req[q] = [@ EXCEPT !.pc = "responded",
                                                !.response = failure(e, "Failed to fetch report objects")]]
       \/ LET rq == objectsAnswered(search.req[q],
                                    multiGetObjects(search.reports, search.req[q].createdIds))
          IN  search' = [search EXCEPT !.req[q] = rq, !.cache = cacheSet(search, rq)]
    /\ UNCHANGED <<publish, diffVars, mosaicVars, viewerVars, timelineVars, fnVars, appVars>>

SearchObjectsSettle(q) == SearchObjectsSettleOf(q, SuiErrors)

SearchClockTick ==
    /\ search.now < MaxSearchNow
    /\ search' = [search EXCEPT !.now = @ + 1]
    /\ UNCHANGED <<publish, diffVars, mosaicVars, viewerVars, timelineVars, fnVars, appVars>>

\* The client has its response.
SearchForget(q) ==
    /\ search.req[q].pc = "responded"
    /\ search' = [search EXCEPT !.req[q] = idleSearch]
    /\ UNCHANGED <<publish, diffVars, mosaicVars, viewerVars, timelineVars, fnVars, appVars>>

(***************************************************************************)
(* The specifications: one per component, the others idle.                 *)
(***************************************************************************)
\* the diff pass on drawn buffers
InitDiff == DiffInit /\ MosaicIdle /\ ViewerIdle /\ TimelineIdle /\ FnIdle /\ AppIdle /\ RoutesIdle
NextDiff == DiffRun
SpecDiff == InitDiff /\ [][NextDiff]_vars

\* one call of the tile mosaic loader
InitMosaic == MosaicIdle /\ DiffIdle /\ ViewerIdle /\ TimelineIdle /\ FnIdle /\ AppIdle /\ RoutesIdle
NextMosaic == MosaicCall(TheLoader) \/ LoaderSettle(TheLoader)
SpecMosaic == InitMosaic /\ [][NextMosaic]_vars

\* a DiffViewer with its effect runs and their loaders
InitViewer == ViewerIdle /\ MosaicIdle /\ DiffIdle /\ TimelineIdle /\ FnIdle /\ AppIdle /\ RoutesIdle
NextViewer ==
    \/ ViewerEffect
    \/ \E r \in Runs, sd \in Sides : ViewerTileSettle(r, sd)
    \/ \E r \in Runs : ViewerPreviewSettle(r)
SpecViewer == InitViewer /\ [][NextViewer]_vars

\* timeline requests against one Wayback catalogue, one after the other
InitTimeline == TimelineInit /\ DiffIdle /\ MosaicIdle /\ ViewerIdle /\ FnIdle /\ AppIdle /\ RoutesIdle
NextTimeline ==
    \/ TimelinePost(TheReq)
    \/ \E k \in 1..batchSize : TimelineProbeSettle(TheReq, k)
    \/ TimelineBudgetElapses(TheReq)
    \/ \E key \in TimelineKeys : TimelineCacheExpires(key)
    \/ TimelineForget(TheReq)
SpecTimeline == InitTimeline /\ [][NextTimeline]_vars

\* timeline requests for one cache key in progress together, within the life
\* of a cache entry
InitRace == RaceInit /\ DiffIdle /\ MosaicIdle /\ ViewerIdle /\ FnIdle /\ AppIdle /\ RoutesIdle
NextRace ==
    \/ \E q \in ReqIds : TimelinePostOf(q, {None})
    \/ \E q \in ReqIds, k \in 1..batchSize : TimelineProbeSettle(q, k)
    \/ \E q \in ReqIds : TimelineBudgetElapses(q)
SpecRace == InitRace /\ [][NextRace]_vars

\* calls of calc
InitCalc == CalcInit /\ DiffIdle /\ MosaicIdle /\ ViewerIdle /\ TimelineIdle /\ AppIdle /\ RoutesIdle
NextCalc == CalcCall
SpecCalc == InitCalc /\ [][NextCalc]_vars

\* calls of the candidate selector
InitSelect == SelectInit /\ DiffIdle /\ MosaicIdle /\ ViewerIdle /\ TimelineIdle /\ AppIdle /\ RoutesIdle
NextSelect == SelectCall
SpecSelect == InitSelect /\ [][NextSelect]_vars

\* calls of the report helpers
InitReport == ReportInit /\ DiffIdle /\ MosaicIdle /\ ViewerIdle /\ TimelineIdle /\ AppIdle /\ RoutesIdle
NextReport == ReportCall
SpecReport == InitReport /\ [][NextReport]_vars

\* calls of extractCreatedObjectIdsFromTxPage
InitExtract == ExtractInit /\ DiffIdle /\ MosaicIdle /\ ViewerIdle /\ TimelineIdle /\ AppIdle /\ RoutesIdle
NextExtract == ExtractCall
SpecExtract == InitExtract /\ [][NextExtract]_vars

\* one call of the tile mosaic loader whose caller calls and whose tile
\* requests settle: a request is answered, fails, or is aborted by its 10 s
\* timer (part_000:167-174), and the body of an answered request is taken
\* to arrive
SpecMosaicLive == SpecMosaic /\ WF_vars(NextMosaic)

\* one run of a DiffViewer whose two mosaics have several tiles
InitTiles == ViewerIdle /\ MosaicIdle /\ DiffIdle /\ TimelineIdle /\ FnIdle /\ AppIdle /\ RoutesIdle
NextTiles ==
    \/ ViewerEffectOf(TileRunInputs, 1)
    \/ \E sd \in Sides : ViewerTileSettle(1, sd)
    \/ ViewerPreviewSettle(1)
SpecTiles == InitTiles /\ [][NextTiles]_vars

\* one call of the tile mosaic loader with a bbox that is not a box
InitBadBbox == InitMosaic
NextBadBbox ==
    MosaicCallOf(TheLoader, DegenerateInputs, 0..MaxBadZoom) \/ LoaderSettle(TheLoader)
SpecBadBbox == InitBadBbox /\ [][NextBadBbox]_vars

\* timeline requests against a long catalogue, batch by batch
InitBudget == BudgetInit /\ DiffIdle /\ MosaicIdle /\ ViewerIdle /\ FnIdle /\ AppIdle /\ RoutesIdle
NextBudget ==
    \/ TimelinePost(TheReq)
    \/ TimelineBatchSettles(TheReq)
    \/ TimelineBudgetElapses(TheReq)
SpecBudget == InitBudget /\ [][NextBudget]_vars

\* a timeline request against a catalogue of more than one batch, probe by
\* probe, the tile server answering as the catalogue says
InitBatches == BatchesInit /\ DiffIdle /\ MosaicIdle /\ ViewerIdle /\ FnIdle /\ AppIdle /\ RoutesIdle
NextBatches ==
    \/ TimelinePostOf(TheReq, {None})
    \/ \E k \in 1..batchSize : TimelineProbeSettleOf(TheReq, k, FALSE)
    \/ TimelineBudgetElapses(TheReq)
SpecBatches == InitBatches /\ [][NextBatches]_vars

\* Requests against the cache while the clock runs: the capabilities can be
\* out of reach, a build can run out of its time budget.
InitCache == CacheInit /\ DiffIdle /\ MosaicIdle /\ ViewerIdle /\ FnIdle /\ AppIdle /\ RoutesIdle
NextCache ==
    \/ \E q \in ReqIds : TimelinePostCaps(q, LimitInputs, BOOLEAN)
    \/ \E q \in ReqIds : TimelineBatchSettles(q)
    \/ \E q \in ReqIds : TimelineBudgetElapses(q)
    \/ \E q \in ReqIds : TimelineForget(q)
    \/ TimelineClockTick
SpecCache == InitCache /\ [][NextCache]_vars

\* GeoProofApp from its mount: the user's changes of the region, the zoom
\* and the toggle, the sliders, the search, and the timers and requests.
InitApp == AppInit /\ DiffIdle /\ MosaicIdle /\ ViewerIdle /\ TimelineIdle /\ FnIdle /\ RoutesIdle
NextApp ==
    \/ \E kind \in BboxChanges : AppChangeBbox(kind)
    \/ AppSetTileZoom
    \/ AppToggleWayback
    \/ \E e \in Effects : AppTimerFires(e)
    \/ \E e \in Effects : AppFetchSettles(e)
    \/ \E e \in Effects : AppJsonSettles(e)
    \/ AppSlide
    \/ AppOldest
    \/ AppNewest
    \/ AppCommitFires
    \/ AppRunSearch
    \/ AppS2Settles
    \/ AppLsSettles
SpecApp == InitApp /\ [][NextApp]_vars

\* Requests to the publish route, one after the other.
InitPublish == PublishInit /\ DiffIdle /\ MosaicIdle /\ ViewerIdle /\ TimelineIdle /\ FnIdle /\ AppIdle
NextPublish == PublishPost \/ PublishUploadSettles \/ PublishTxSettles \/ PublishNext
SpecPublish == InitPublish /\ [][NextPublish]_vars

\* Requests to the reports search while the clock runs and the fullnode
\* fails or answers.
InitSearch == SearchInit /\ DiffIdle /\ MosaicIdle /\ ViewerIdle /\ TimelineIdle /\ FnIdle /\ AppIdle
NextSearch ==
    \/ SearchGet(TheSearch)
    \/ SearchQuerySettles(TheSearch)
    \/ SearchWakes(TheSearch)
    \/ SearchObjectsSettle(TheSearch)
    \/ SearchForget(TheSearch)
    \/ SearchClockTick
SpecSearch == InitSearch /\ [][NextSearch]_vars

\* Requests to the reports search over any reports on chain, the fullnode
\* answering.
InitItems == ItemsInit /\ DiffIdle /\ MosaicIdle /\ ViewerIdle /\ TimelineIdle /\ FnIdle /\ AppIdle
NextItems ==
    \/ SearchGet(TheSearch)
    \/ SearchQuerySettlesOf(TheSearch, {})
    \/ SearchObjectsSettleOf(TheSearch, {})
    \/ SearchForget(TheSearch)
SpecItems == InitItems /\ [][NextItems]_vars

(***************************************************************************)
(* Properties of the tile mosaic loader (checked under SpecMosaic).        *)
(***************************************************************************)
Last(q) == q[Len(q)]

\* C1: no attempt issues more than maxTiles (36) tile fetches: the zoom is
\* lowered until tilesX * tilesY <= 36 before the first tile of the attempt
\* is requested.
C1_TileBudget ==
    \A l \in LoaderIds :
        /\ loader[l].issued <= maxTiles
        /\ loader[l].pc = "fetch" =>
              /\ totalTiles(loader[l]) <= maxTiles
              /\ loader[l].issued <= totalTiles(loader[l])

\* the budget lowered the zoom, and an attempt used almost all of it
C1_Witness ==
    \E l \in LoaderIds :
        /\ loader[l].pc = "fetch"
        /\ loader[l].tried[1] < clampZoom(loader[l].requestedZoom)
        /\ loader[l].issued >= maxTiles - 2

\* C2 as stated, for the tile errors it is about: an error reaches the caller
\* only after zoom is exhausted, i.e. only after the attempt at zoom 0 has
\* failed.
C2_Original ==
    \A l \in LoaderIds :
        (loader[l].pc = "failed" /\ loader[l].canvasOk) => Last(loader[l].tried) = 0

\* C2 (amended): the load makes at most 6 attempts, at consecutive zoom
\* levels from the budget-lowered clamped requestedZoom downwards, returns
\* the first usable mosaic, and fails only after the attempt at zoom 0 has
\* failed or after 6 attempts have failed.
C2_FailsAfterRetries ==
    \A l \in LoaderIds :
        LET ld == loader[l] IN
        ld.pc # "idle" =>
            /\ Len(ld.tried) \in 1..MaxAttempts
            /\ ld.tried[1] = budgetZoom(ld.bbox, clampZoom(ld.requestedZoom))
            /\ \A i \in 2..Len(ld.tried) : ld.tried[i] = ld.tried[i - 1] - 1
            /\ ld.pc = "failed" =>
                  /\ Len(ld.tried) = MaxAttempts \/ Last(ld.tried) = 0
                  /\ ld.lastErr.z = Last(ld.tried)
            /\ ld.pc = "returned" => ld.usedZoom = Last(ld.tried)

\* a load that failed on its sixth attempt, above zoom 0
C2_Witness ==
    \E l \in LoaderIds :
        /\ loader[l].pc = "failed"
        /\ Len(loader[l].tried) = MaxAttempts
        /\ Last(loader[l].tried) > 0
        /\ loader[l].canvasOk

\* C15: a tile request that runs into its 10 s timeout is handled like a
\* response that is not ok: with allowMissingTiles the tile counts as missing
\* and the attempt goes on, so the timeout never becomes the error that ends
\* an attempt of such a call.
C15_TimeoutAsMissing ==
    \A l \in LoaderIds :
        loader[l].lastErr.kind = AbortedMsg => ~loader[l].allowMissingTiles

\* ---- calc alone (checked under SpecCalc) ----
CalcDone == fnIn # None /\ fnOut # None /\ fnIn[1].fn = "calc"
ProperBbox(bbox) == bbox[1] < bbox[3] /\ bbox[2] < bbox[4]

\* C18: for a zoom in 0..24 and a bbox with minLon < maxLon and
\* minLat < maxLat the tile range has x0 <= x1, y0 <= y1, tilesX >= 1 and
\* tilesY >= 1; y0 is the row of the maximum latitude.
C18_TileRangeNotEmpty ==
    (CalcDone /\ ProperBbox(fnIn[1].bbox)) =>
        /\ fnOut[1].x0 <= fnOut[1].x1
        /\ fnOut[1].y0 <= fnOut[1].y1
        /\ fnOut[1].tilesX >= 1
        /\ fnOut[1].tilesY >= 1
        /\ fnOut[1].y0 = tileOf(worldY(fnIn[1].bbox[4]), fnIn[1].zoom)
        /\ fnOut[1].y1 = tileOf(worldY(fnIn[1].bbox[2]), fnIn[1].zoom)

\* a bbox across the origin at the deepest zoom: more than one column and
\* more than one row
C18_Witness ==
    /\ CalcDone
    /\ fnIn[1].bbox = <<-1, -1, 1, 1>>
    /\ fnIn[1].zoom = MaxZoom
    /\ fnOut[1].tilesX > 1
    /\ fnOut[1].tilesY > 1
    /\ fnOut[1].y0 < fnOut[1].y1

(***************************************************************************)
(* Properties of DiffViewer (checked under SpecViewer).                    *)
(***************************************************************************)
ResultCommits == {"onComputed(stats)", "onArtifacts", "setState(result)", "setState(error)"}

\* C3: the result of a superseded run is discarded: a cancelled run never
\* calls onComputed with stats, never calls onArtifacts and never stores a
\* diff URL, thumbnails or an error; what the state and the parent hold of
\* these comes from the latest run.
C3_StaleResultDiscarded ==
    /\ stale \cap ResultCommits = {}
    /\ computed # None => computed[1].run = cur
    /\ state.diffUrl # None => state.diffUrl[1] = cur
    /\ state.beforeCroppedUrl # None => state.beforeCroppedUrl[1][1] = cur
    /\ state.afterCroppedUrl # None => state.afterCroppedUrl[1][1] = cur
    /\ state.error # None => state.error[1].run = cur

\* a run whose two loads returned after it had been cancelled
C3_Witness ==
    \E r \in Runs :
        /\ run[r].cancelled
        /\ run[r].pc = "done"
        /\ run[r].tilePair = None
        /\ \A sd \in Sides : loader[<<r, sd>>].pc = "returned"

\* C4: when the diff is computed from tile mosaics, the two mosaics were
\* produced at the same zoom level and have the same size, so that pixel
\* (x, y) is the same place in both buffers.
C4_AlignedBuffers ==
    \A r \in Runs :
        run[r].tilePair # None =>
            LET pr == run[r].tilePair[1] IN
            /\ pr.ra.z = pr.rb.z
            /\ pr.ra.w = pr.rb.w
            /\ pr.ra.h = pr.rb.h

\* the messages of the errors loadBboxImageFromTiles fails with
TileErrors == {"Tile fetch failed", "Too many missing tiles", AbortedMsg, "fetch rejected"}
HasPreviews(r) == run[r].inputs.beforeUrl # NULL /\ run[r].inputs.afterUrl # NULL
TilesFailed(r) == \E sd \in Sides : loader[<<r, sd>>].pc = "failed"

\* C17: when a load of the tile path has failed and both preview URLs are
\* there, the run has left the tile path for the previews without using a
\* tile image, and the error shown is never that of the tiles; the error of a
\* failed tile load is shown only by a run that lacks a preview URL, and a
\* result from tiles is shown only when both loads returned.
C17_PreviewFallback ==
    /\ \A r \in Runs :
          (TilesFailed(r) /\ HasPreviews(r)) =>
              /\ run[r].pc \in {"preview", "done"}
              /\ run[r].tilePair = None
              /\ state.error # None /\ state.error[1].run = r =>
                    state.error[1].msg \notin TileErrors
    /\ state.error # None /\ state.error[1].msg \in TileErrors =>
          /\ TilesFailed(state.error[1].run)
          /\ ~HasPreviews(state.error[1].run)
    /\ \A r \in Runs :
          state.beforeCroppedUrl = Some(<<r, "tiles">>) => ~TilesFailed(r)

\* a load of the tile path failed, both previews were there, and the mask on
\* display was computed from the previews, with no error
C17_Witness ==
    \E r \in Runs :
        /\ TilesFailed(r)
        /\ HasPreviews(r)
        /\ run[r].pc = "done"
        /\ state.beforeCroppedUrl = Some(<<r, "preview">>)
        /\ state.diffUrl = Some(r)
        /\ state.error = None

(***************************************************************************)
(* Properties of the pixel diff engine (checked under SpecDiff).           *)
(***************************************************************************)
DiffDone == diffIn # None /\ diffOut # None
DIn == diffIn[1]
DOut == diffOut[1]
DiffPixels == 1..(DIn.w * DIn.h)
PixelMasked(i) == Masked(DIn.a[i], DIn.b[i], DIn.ignoreClouds, DIn.ignoreDark)
MaskedPixels == {i \in DiffPixels : PixelMasked(i)}
UnmaskedPixels == DiffPixels \ MaskedPixels
HasStats == DOut.stats # None
Stats == DOut.stats[1]

RECURSIVE SumOver(_, _)
SumOver(S, in) ==
    IF S = {} THEN 0
    ELSE LET i == CHOOSE x \in S : TRUE
         IN  d3(in.a[i], in.b[i]) + SumOver(S \ {i}, in)

\* C5: every pixel of the working area is either masked or counted in
\* considered: considered + (number of masked pixels) = width * height.
C5_MaskedOrConsidered ==
    DiffDone => DOut.considered + Cardinality(MaskedPixels) = DIn.w * DIn.h

C5_Witness ==
    /\ DiffDone
    /\ MaskedPixels # {}
    /\ UnmaskedPixels # {}

\* C6: the pass fails with the all-pixels-masked error exactly when
\* considered = 0, i.e. when every pixel is masked, and then it produces no
\* stats at all; otherwise it produces stats and no error.
C6_AllMaskedError ==
    DiffDone =>
        /\ (DOut.error = AllMaskedMsg) <=> (DOut.considered = 0)
        /\ (DOut.considered = 0) <=> (UnmaskedPixels = {})
        /\ (DOut.error = AllMaskedMsg) => DOut.stats = None /\ DOut.od = None
        /\ (DOut.error # AllMaskedMsg) => DOut.error = NULL /\ DOut.stats # None

\* two all-white buffers with ignoreClouds = true
C6_Witness ==
    /\ DiffDone
    /\ DIn.ignoreClouds
    /\ \A i \in DiffPixels : DIn.a[i] = White /\ DIn.b[i] = White
    /\ DOut.error = AllMaskedMsg

\* C7: two identical buffers that are not entirely masked give meanDiff = 0
\* and changedPercent = 0 for every threshold > 0.
C7_IdenticalBuffers ==
    (DiffDone /\ DIn.a = DIn.b /\ DIn.threshold > 0 /\ UnmaskedPixels # {}) =>
        /\ HasStats
        /\ Stats.meanDiff[1] = 0
        /\ Stats.changedPercent[1] = 0

C7_Witness ==
    /\ DiffDone
    /\ DIn.a = DIn.b
    /\ DIn.threshold > 0
    /\ HasStats
    /\ MaskedPixels # {}

\* p <= q for fractions <<n, d>> with positive denominators
FracLeq(p, q) == p[1] * q[2] <= q[1] * p[2]
FracEq(p, q) == p[1] * q[2] = q[1] * p[2]

\* C8: for fixed buffers and masking options, changedPercent does not
\* increase when the threshold is raised, and meanDiff and the considered
\* count are the same at every threshold.
C8_ThresholdMonotonic ==
    DiffDone =>
        \A t \in Thresholds :
            t >= DIn.threshold =>
                LET other == computeDiff([DIn EXCEPT !.threshold = t])
                IN  /\ other.considered = DOut.considered
                    /\ (other.stats = None) <=> (DOut.stats = None)
                    /\ HasStats =>
                          /\ FracLeq(other.stats[1].changedPercent, Stats.changedPercent)
                          /\ FracEq(other.stats[1].meanDiff, Stats.meanDiff)

\* changedPercent strictly drops at some higher threshold
C8_Witness ==
    /\ DiffDone
    /\ HasStats
    /\ Stats.changedPercent[1] > 0
    /\ \E t \in Thresholds :
          /\ t > DIn.threshold
          /\ LET other == computeDiff([DIn EXCEPT !.threshold = t])
             IN  ~FracLeq(Stats.changedPercent, other.stats[1].changedPercent)

PixelChanged(i) == d3(DIn.a[i], DIn.b[i]) >= 3 * DIn.threshold
ChangedPixels == {i \in UnmaskedPixels : PixelChanged(i)}

\* what the claim says of the aggregates and of the pixels that are not hot
C9_Common ==
    /\ FracEq(Stats.meanDiff, <<SumOver(UnmaskedPixels, DIn), 3 * Cardinality(UnmaskedPixels)>>)
    /\ FracEq(Stats.changedPercent, <<100 * Cardinality(ChangedPixels), Cardinality(UnmaskedPixels)>>)
    /\ \A i \in DiffPixels :
          /\ DOut.od[1][i][1] = 255 /\ DOut.od[1][i][2] = 0 /\ DOut.od[1][i][3] = 0
          /\ i \notin ChangedPixels => DOut.od[1][i][4] = 0
    /\ ( /\ DIn.w = SolidSide /\ DIn.h = SolidSide /\ DIn.threshold = 20
          /\ ~DIn.ignoreClouds /\ ~DIn.ignoreDark
          /\ \A i \in DiffPixels : DIn.a[i] = Grey /\ DIn.b[i] = Olive )
        => FracEq(Stats.changedPercent, <<100, 1>>) /\ FracEq(Stats.meanDiff, <<80, 3>>)

\* C9 as stated: the alpha of a changed pixel in the heatmap is
\* min(220, 40 + d), i.e. 3 * alpha = min(660, 120 + 3d).
C9_Original ==
    (DiffDone /\ HasStats) =>
        /\ C9_Common
        /\ \A i \in ChangedPixels :
              3 * DOut.od[1][i][4] = Min(660, 120 + d3(DIn.a[i], DIn.b[i]))

\* C9 (amended): d = (|dr| + |dg| + |db|) / 3 per unmasked pixel, changed
\* iff d >= threshold; the heatmap pixel is red with alpha 0 when masked or
\* not changed and min(220, 40 + d) rounded to the nearest integer (the 8-bit
\* channel it is stored in) when changed; meanDiff = sum(d) / considered
\* and changedPercent = 100 * changed / considered.
C9_HeatmapAndStats ==
    (DiffDone /\ HasStats) =>
        /\ C9_Common
        /\ \A i \in ChangedPixels :
              LET k == Min(660, 120 + d3(DIn.a[i], DIn.b[i]))
                  alpha == DOut.od[1][i][4]
              IN  /\ alpha \in 0..255
                  /\ 3 * alpha - k \in {-1, 0, 1}

\* a changed pixel whose ramp value is capped at 220, beside a masked one
C9_Witness ==
    /\ DiffDone /\ HasStats
    /\ \E i \in ChangedPixels : 120 + d3(DIn.a[i], DIn.b[i]) > 660 /\ DOut.od[1][i][4] = 220

(***************************************************************************)
(* Properties of the snapshot deduplicator (checked under SpecTimeline).   *)
(***************************************************************************)
Timeline200(q) == req[q].pc = "responded" /\ req[q].response.status = 200
BuiltTimeline(q) == Timeline200(q) /\ req[q].processed # <<>>
OptionIds(q) == {req[q].response.options[i].id : i \in 1..Len(req[q].response.options)}

\* the results whose probe gave a hash no earlier result of the request gave
FirstOfHash(q) ==
    LET pr == req[q].processed
    IN  {pr[j].id : j \in {j \in 1..Len(pr) :
                             /\ pr[j].hash # NULL
                             /\ \A e \in 1..(j - 1) : pr[e].hash # pr[j].hash}}

\* C10: a returned timeline has no two versions whose probe tile has the same
\* hash; the versions were processed newest first, and the timeline holds, for
\* every hash a probe gave, the first processed version that gave it and no
\* other version.
C10_UniqueFirstOfHash ==
    \A q \in ReqIds :
        /\ Timeline200(q) =>
              \A a, b \in OptionIds(q) :
                  wayback.tileHash[a] = wayback.tileHash[b] => a = b
        /\ BuiltTimeline(q) =>
              /\ Len(req[q].response.options) = Cardinality(OptionIds(q))
              /\ \A j \in 1..Len(req[q].processed) :
                    /\ req[q].processed[j].id = req[q].versions[j].id
                    /\ req[q].processed[j].hash \in {NULL, wayback.tileHash[req[q].versions[j].id]}
              /\ \A j \in 1..(Len(req[q].versions) - 1) :
                    newestFirst(req[q].versions[j], req[q].versions[j + 1])
              /\ OptionIds(q) = FirstOfHash(q)

\* three versions processed with hashes H1, H1, H2: the first and the third
\* make the timeline, the second is dropped as a duplicate
C10_Witness ==
    \E q \in ReqIds :
        /\ BuiltTimeline(q)
        /\ Len(req[q].processed) = 3
        /\ req[q].processed[1].hash = "H1"
        /\ req[q].processed[2].hash = "H1"
        /\ req[q].processed[3].hash = "H2"
        /\ req[q].deduped = 1
        /\ OptionIds(q) = {req[q].processed[1].id, req[q].processed[3].id}

Options(q) == req[q].response.options

\* C11: a returned timeline lists the kept versions by ascending date, equal
\* dates by ascending id; the suggested before id is that of its first entry
\* and the suggested after id that of its last entry, though the versions
\* were probed and kept newest first.
C11_TimelineOldestFirst ==
    \A q \in ReqIds :
        Timeline200(q) =>
            /\ \A i \in 1..(Len(Options(q)) - 1) :
                  \/ Options(q)[i].date < Options(q)[i + 1].date
                  \/ /\ Options(q)[i].date = Options(q)[i + 1].date
                     /\ Options(q)[i].id < Options(q)[i + 1].id
            /\ req[q].response.beforeId = Options(q)[1].id
            /\ req[q].response.afterId = Options(q)[Len(Options(q))].id
            /\ BuiltTimeline(q) =>
                  /\ Len(Options(q)) = Len(req[q].available)
                  /\ OptionIds(q) = {req[q].available[i].id : i \in 1..Len(req[q].available)}

\* two versions of one date were kept, the higher id first (newest first);
\* the timeline has the lower id first
C11_Witness ==
    \E q \in ReqIds :
        /\ BuiltTimeline(q)
        /\ Len(req[q].available) = 2
        /\ req[q].available[1].date = req[q].available[2].date
        /\ req[q].available[1].id > req[q].available[2].id
        /\ Options(q)[1] = req[q].available[2]
        /\ req[q].response.beforeId = req[q].available[2].id
        /\ req[q].response.afterId = req[q].available[1].id

\* the request q answers in this step after the probe loop ran and kept nothing
NoCoverageStep(q) ==
    /\ req[q].pc # "responded"
    /\ req'[q].pc = "responded"
    /\ ~req'[q].hit
    /\ req'[q].available = <<>>

\* C12 as stated: a request that is not served from the cache and found no
\* unique version answers 404.
C12_Original ==
    \A q \in ReqIds :
        (req[q].pc = "responded" /\ ~req[q].hit /\ req[q].available = <<>>)
            => req[q].response.status = 404

\* C12: when the capabilities list at least one version and the probe loop
\* ends with no unique version (each processed probe failed), the request
\* answers 404 and the step leaves the cache as it was; a 200 answer never
\* carries an empty timeline.
C12_NoCoverage ==
    [][\A q \in ReqIds :
          /\ (NoCoverageStep(q) /\ req'[q].versions # <<>>) =>
                /\ req'[q].response.status = 404
                /\ optionsCache' = optionsCache
                /\ \A j \in 1..Len(req'[q].processed) : req'[q].processed[j].hash = NULL
          /\ (req'[q].pc = "responded" /\ req'[q].response.status = 200) =>
                Len(req'[q].response.options) >= 1]_vars

\* every probe of a catalogue of three versions failed, the answer is 404
\* and the cache is empty
C12_Witness ==
    \E q \in ReqIds :
        /\ req[q].pc = "responded"
        /\ ~req[q].hit
        /\ Len(req[q].versions) = 3
        /\ req[q].failed = 3
        /\ req[q].available = <<>>
        /\ req[q].response.status = 404
        /\ optionsCache[req[q].key] = None


(***************************************************************************)
(* Properties of the candidate selector (checked under SpecSelect).        *)
(***************************************************************************)
SelDone(fn) == fnIn # None /\ fnOut # None /\ fnIn[1].fn = fn
SelFeatures == fnIn[1].features
Picked == fnOut[1]
HasDatetime(i) == SelFeatures[i].datetime # None /\ SelFeatures[i].datetime[1].parses
Dated == {i \in 1..Len(SelFeatures) : HasDatetime(i)}
DistOf(i) == Abs(SelFeatures[i].datetime[1].ms - fnIn[1].targetMs)

\* C13: pickClosest returns null exactly when no feature has a datetime that
\* parses; otherwise it returns a feature with such a datetime whose distance
\* to the target is the least, and the first of the input among those at that
\* distance.  For 2024-01-01, 2024-01-05, 2024-01-10 and target 2024-01-03 it
\* returns the first feature.
C13_PickClosest ==
    SelDone("pickClosest") =>
        /\ Picked = None <=> Dated = {}
        /\ Picked # None =>
              \E i \in Dated :
                  /\ Picked[1] = SelFeatures[i]
                  /\ \A j \in Dated : DistOf(i) <= DistOf(j)
                  /\ \A j \in Dated : j < i => DistOf(j) > DistOf(i)
        /\ ( /\ Dated = {1, 2, 3}
             /\ SelFeatures[1].datetime[1].ms = Jan01
             /\ SelFeatures[2].datetime[1].ms = Jan05
             /\ SelFeatures[3].datetime[1].ms = Jan10
             /\ fnIn[1].targetMs = Jan03 ) => Picked = Some(SelFeatures[1])

\* the dates of the example: the first and the second feature are both two
\* days from the target, the first is returned
C13_Witness ==
    /\ SelDone("pickClosest")
    /\ Dated = {1, 2, 3}
    /\ SelFeatures[1].datetime[1].ms = Jan01
    /\ SelFeatures[2].datetime[1].ms = Jan05
    /\ SelFeatures[3].datetime[1].ms = Jan10
    /\ fnIn[1].targetMs = Jan03
    /\ Picked = Some(SelFeatures[1])

HasCloud(i) == SelFeatures[i].cloud # None /\ SelFeatures[i].cloud[1].finite
Scored == {i \in Dated : HasCloud(i)}
InWindow == {i \in Scored : DistOf(i) <= fnIn[1].maxOffsetDays * msPerDay}
ClearPool == IF InWindow # {} THEN InWindow ELSE Scored
CloudOf(i) == SelFeatures[i].cloud[1].pct

\* C14: pickClearest returns null exactly when no feature has both a datetime
\* and a cloud cover; otherwise it returns a feature with both, from those
\* within maxOffsetDays of the target when there is one and from all of them
\* when there is none, with the least cloud cover of that pool and, among
\* those of that cloud cover, the least distance in time.
C14_PickClearest ==
    SelDone("pickClearest") =>
        /\ Picked = None <=> Scored = {}
        /\ Picked # None =>
              \E i \in ClearPool :
                  /\ Picked[1] = SelFeatures[i]
                  /\ \A j \in ClearPool :
                        \/ CloudOf(i) < CloudOf(j)
                        \/ CloudOf(i) = CloudOf(j) /\ DistOf(i) <= DistOf(j)

\* a feature outside the window has less cloud than every feature inside it,
\* and a feature inside the window is returned
C14_Witness ==
    /\ SelDone("pickClearest")
    /\ Picked # None
    /\ Picked[1].id \in InWindow
    /\ \E j \in Scored \ InWindow : \A i \in InWindow : CloudOf(j) < CloudOf(i)


(***************************************************************************)
(* Properties of racing timeline requests (checked under SpecRace).        *)
(***************************************************************************)
\* q answered after building the timeline itself (a miss of the cache)
Rebuilt(q) == req[q].pc = "responded" /\ ~req[q].hit /\ req[q].versions # <<>>
\* every version was processed and no probe ended in a failure
CleanBuild(q) == req[q].probed = Len(req[q].versions) /\ req[q].failed = 0

ReportDone(fn) == fnIn # None /\ fnOut # None /\ fnIn[1].fn = fn
ParamParts == fnIn[1].b[1]
\* the string is four numbers between three commas, the box they give is
\* neither degenerate nor inverted
FourNumbers ==
    /\ fnIn[1].b # None
    /\ Len(ParamParts) = 4
    /\ \A i \in 1..4 : ParamParts[i].kind = "num"
    /\ ParamParts[1].val < ParamParts[3].val
    /\ ParamParts[2].val < ParamParts[4].val

\* C19: parseBboxParam returns a bbox exactly for a string of four
\* comma-separated finite numbers with minLng < maxLng and minLat < maxLat,
\* and then those four numbers; for every other input it returns null.
C19_ParseBboxParam ==
    ReportDone("parseBboxParam") =>
        IF FourNumbers
        THEN fnOut[1] = Some(<<ParamParts[1].val, ParamParts[2].val,
                               ParamParts[3].val, ParamParts[4].val>>)
        ELSE fnOut[1] = None

\* C19, the part that holds: a string of four numbers in order is returned
\* as those numbers, and null is returned for null, for the empty string,
\* for another count of parts, for a part that is text or Infinity, and for a
\* degenerate or inverted box.
C19_ParsesFourNumbers ==
    ReportDone("parseBboxParam") =>
        /\ FourNumbers =>
              fnOut[1] = Some(<<ParamParts[1].val, ParamParts[2].val,
                                ParamParts[3].val, ParamParts[4].val>>)
        /\ ( \/ fnIn[1].b = None
             \/ Len(ParamParts) # 4
             \/ \E i \in 1..Len(ParamParts) : ParamParts[i].kind \in {"word", "inf"}
             \/ /\ \A i \in 1..4 : ParamParts[i].kind = "num"
                /\ ~FourNumbers ) => fnOut[1] = None

ReportBoxes == <<fnIn[1].a, fnIn[1].b>>
WellFormed(box) == box[1] <= box[3] /\ box[2] <= box[4]
InBox(x, y, box) == box[1] <= x /\ x <= box[3] /\ box[2] <= y /\ y <= box[4]
\* two closed rectangles with corners on the grid share a point exactly when
\* they share a point of the grid
SharePoint(a, b) == \E x \in 0..BoxMax, y \in 0..BoxMax : InBox(x, y, a) /\ InBox(x, y, b)

\* C20: for two rectangles bboxIntersects is true exactly when they share a
\* point, a point of an edge or a corner included; for any two boxes it gives
\* the same answer with the arguments exchanged.
C20_BboxIntersects ==
    ReportDone("bboxIntersects") =>
        /\ (WellFormed(ReportBoxes[1]) /\ WellFormed(ReportBoxes[2])) =>
              (fnOut[1] <=> SharePoint(ReportBoxes[1], ReportBoxes[2]))
        /\ fnOut[1] = bboxIntersects(ReportBoxes[2], ReportBoxes[1])

\* two squares that touch in one corner intersect
C20_Witness ==
    /\ ReportDone("bboxIntersects")
    /\ ReportBoxes[1] = <<0, 0, 1, 1>>
    /\ ReportBoxes[2] = <<1, 1, 2, 2>>
    /\ fnOut[1] = TRUE


(***************************************************************************)
(* Properties of extractCreatedObjectIdsFromTxPage (checked under          *)
(* SpecExtract).                                                           *)
(***************************************************************************)
ExtractDone == fnIn # None /\ fnOut # None /\ fnIn[1].fn = "extract"
PageTxs == IF fnIn[1].txPage = None THEN <<>> ELSE fnIn[1].txPage[1]
TxChanges(i) == IF PageTxs[i].objectChanges = None THEN <<>> ELSE PageTxs[i].objectChanges[1]

\* the places <<i, j>> of the object changes that count: created, a string
\* objectId, an objectType that contains the filter, in a transaction with a
\* string digest
Counted ==
    { p \in (1..Len(PageTxs)) \X (1..MaxChanges + 1) :
        /\ PageTxs[p[1]].digest # None
        /\ p[2] <= Len(TxChanges(p[1]))
        /\ LET c == TxChanges(p[1])[p[2]] IN
              /\ c.type = "created"
              /\ c.objectId # None
              /\ c.objectType # None
              /\ \E s \in 1..Len(c.objectType[1]) : c.objectType[1][s] = fnIn[1].filter }
PlaceBefore(p, q) == p[1] < q[1] \/ (p[1] = q[1] /\ p[2] < q[2])
RankOf(p) == Cardinality({q \in Counted : PlaceBefore(q, p)}) + 1

\* C21: extractCreatedObjectIdsFromTxPage returns one {objectId, digest} per
\* object change that is created, has a string objectId and an objectType
\* containing the filter, in page order, with the digest of its transaction;
\* other changes and transactions without a string digest add nothing.
C21_ExtractCreated ==
    ExtractDone =>
        /\ Len(fnOut[1]) = Cardinality(Counted)
        /\ \A p \in Counted :
              fnOut[1][RankOf(p)] =
                  [objectId |-> TxChanges(p[1])[p[2]].objectId[1],
                   digest |-> PageTxs[p[1]].digest[1]]

\* the page of the unit test: two transactions, a created report and a
\* mutated one in the first, a created object of another type and a created
\* report in the second
C21_Witness ==
    /\ ExtractDone
    /\ Len(PageTxs) = 2
    /\ Len(TxChanges(1)) = 2 /\ Len(TxChanges(2)) = 2
    /\ TxChanges(1)[2].type = "mutated" /\ TxChanges(1)[2].objectType = Some(ReportType)
    /\ TxChanges(2)[1].type = "created" /\ TxChanges(2)[1].objectType = Some(OtherType)
    /\ fnOut[1] = << [objectId |-> <<"0x", 1, 1>>, digest |-> <<"tx", 1>>],
                     [objectId |-> <<"0x", 2, 2>>, digest |-> <<"tx", 2>>] >>


\* ---- the loader as the machine (attempt, zoom) (checked under SpecMosaicLive) ----
Terminal(ld) == ld.pc \in {"returned", "failed"}

\* One step of a load: the attempts made so far stay, each new attempt is
\* one zoom level below the attempt before it and follows its failure, there
\* are never more than 6, and nothing follows the end of the load.
AttemptStep(a, b) ==
    /\ Terminal(a) => b = a
    /\ Len(b.tried) <= MaxAttempts
    /\ Len(a.tried) <= Len(b.tried)
    /\ \A i \in 1..Len(a.tried) : b.tried[i] = a.tried[i]
    /\ \A i \in 2..Len(b.tried) : b.tried[i] = b.tried[i - 1] - 1
    /\ (Len(b.tried) > Len(a.tried) /\ Len(a.tried) > 0) =>
          /\ b.lastErr # NoErr
          /\ b.lastErr.z \in {Last(b.tried), Last(b.tried) + 1}

\* Where a load stands: in an attempt whose predecessor, if any, failed one
\* level above; or failed, by the failure of its last attempt, which was at
\* zoom 0 or was the sixth; or returned, with the zoom of its last attempt.
AttemptState(ld) ==
    /\ ld.pc = "fetch" =>
          /\ Len(ld.tried) = 1 => ld.lastErr = NoErr
          /\ Len(ld.tried) > 1 => ld.lastErr.z = Last(ld.tried) + 1
    /\ ld.pc = "failed" =>
          /\ ld.lastErr # NoErr
          /\ ld.lastErr.z = Last(ld.tried)
          /\ ld.lastErr.z = 0 \/ Len(ld.tried) = MaxAttempts
    /\ ld.pc = "returned" => ld.usedZoom = Last(ld.tried) /\ ld.usedZoom >= 0

RetryableErrors == {"Tile fetch failed", "fetch rejected", AbortedMsg, "Too many missing tiles"}

\* C23: a fetch, timeout or coverage error does not reach the caller while
\* the load goes on to another attempt: when an attempt is under way after
\* such an error, the caller has got nothing; and the error thrown by a load
\* that failed is the error of its last attempt, at the zoom of that attempt.
C23_LastErrorSurfaced ==
    \A l \in LoaderIds :
        LET ld == loader[l] IN
        /\ (ld.pc = "fetch" /\ ld.lastErr # NoErr) =>
              /\ surfaced(ld) = None
              /\ ld.lastErr.z > Last(ld.tried)
        /\ (ld.pc = "failed" /\ ld.lastErr.kind \in RetryableErrors) =>
              /\ surfaced(ld) = [threw |-> TRUE, err |-> ld.lastErr]
              /\ ld.lastErr.z = Last(ld.tried)
              /\ ld.lastErr.kind = "Too many missing tiles" =>
                    /\ ld.allowMissingTiles
                    /\ ld.missing > 0
              /\ ld.lastErr.kind = "Tile fetch failed" => ~ld.allowMissingTiles

\* a load of two or more attempts whose last attempt, at zoom 0, failed by
\* its coverage: the coverage error of zoom 0 is thrown
C23_Witness ==
    \E l \in LoaderIds :
        /\ loader[l].pc = "failed"
        /\ Len(loader[l].tried) >= 2
        /\ loader[l].allowMissingTiles
        /\ loader[l].lastErr = [kind |-> "Too many missing tiles", z |-> 0]
        /\ surfaced(loader[l]).err.kind = "Too many missing tiles"


\* ---- usable mosaics (checked under SpecMosaic) ----
\* C24: an attempt returns a mosaic only if it is usable.  Every tile of the
\* range was requested and its request completed; without allowMissingTiles
\* none is missing, and the refused tile that ends an attempt is the last
\* tile that attempt requested; with allowMissingTiles fewer than 70% of the
\* tiles are missing, and 70% or more end the attempt by a coverage error.
C24_UsableMosaic ==
    \A l \in LoaderIds :
        LET ld == loader[l]
            total == totalTiles([ld EXCEPT !.z = Last(ld.tried)])
        IN  /\ ~ld.allowMissingTiles => ld.missing = 0
            /\ ld.pc = "returned" =>
                  /\ ld.issued = total /\ ld.done = total
                  /\ ld.allowMissingTiles => 10 * ld.missing < 7 * total
            /\ (ld.pc = "failed" /\ ld.lastErr.kind = "Tile fetch failed") =>
                  /\ ~ld.allowMissingTiles
                  /\ ld.issued = ld.done + 1
            /\ (ld.pc = "failed" /\ ld.lastErr.kind = "Too many missing tiles") =>
                  /\ ld.issued = total /\ ld.done = total
                  /\ 10 * ld.missing >= 7 * total

\* a mosaic of 10 tiles returned with 6 of them missing
C24_Witness ==
    \E l \in LoaderIds :
        /\ loader[l].pc = "returned"
        /\ loader[l].allowMissingTiles
        /\ totalTiles(loader[l]) = 10
        /\ loader[l].missing = 6


(***************************************************************************)
(* Properties of the tile requests of a run (checked under SpecTiles).     *)
(***************************************************************************)
\* the tile requests of a load that were issued and have not completed
InFlight(ld) == IF ld.pc = "fetch" THEN ld.issued - ld.done ELSE 0

\* C25: a load has at most one tile request in flight, the next one being
\* issued only when the previous one has completed; the before and the after
\* load of a run go on together, so a run has at most two in flight.
C25_SequentialFetches ==
    \A r \in Runs :
        /\ \A sd \in Sides : InFlight(loader[<<r, sd>>]) <= 1
        /\ InFlight(loader[<<r, "before">>]) + InFlight(loader[<<r, "after">>]) <= 2
        /\ \A sd \in Sides :
              loader[<<r, sd>>].pc = "fetch" =>
                  loader[<<r, sd>>].issued = loader[<<r, sd>>].done + 1

\* both loads of the run are in the middle of an attempt, each waiting for a
\* tile that is not its first
C25_Witness ==
    /\ run[1].pc = "tiles"
    /\ \A sd \in Sides :
          /\ InFlight(loader[<<1, sd>>]) = 1
          /\ loader[<<1, sd>>].done >= 1
    /\ loader[<<1, "before">>].done # loader[<<1, "after">>].done


\* ---- the render-target error (checked under SpecMosaic) ----
\* C26: when no 2D context is to be had, the load fails at once: the attempt
\* that met the "Canvas not available" error is the only attempt of the
\* load, no attempt at a lower zoom follows it.
C26_CanvasFatal ==
    \A l \in LoaderIds :
        loader[l].lastErr.kind = "Canvas not available" => Len(loader[l].tried) = 1


\* ---- bboxes that are not boxes (checked under SpecBadBbox) ----
\* C27: a call with a bbox that has minLon >= maxLon or minLat >= maxLat
\* fails with an invalid-bbox error, in its only attempt, and requests no
\* tile.
C27_InvalidBbox ==
    \A l \in LoaderIds :
        (loader[l].pc # "idle" /\ ~ProperBbox(loader[l].bbox)) =>
            /\ loader[l].pc = "failed"
            /\ loader[l].lastErr.kind = "Invalid bbox"
            /\ Len(loader[l].tried) = 1
            /\ loader[l].issued = 0



(***************************************************************************)
(* Properties of the budgets of the deduplicator (checked under            *)
(* SpecBudget).                                                            *)
(***************************************************************************)
\* the versions whose probe a build has issued so far
Issued(rq) ==
    IF rq.pc = "probing" THEN rq.i + Len(rq.probes) ELSE Min(rq.i, Len(rq.versions))

\* a step of a request starts a batch
StartsBatch(a, b) == b.pc = "probing" /\ (a.pc # "probing" \/ b.i # a.i)

\* C28: a batch is started only while fewer than `limit` unique versions are
\* collected, fewer than 180 probes are counted and the 30 s have not
\* elapsed; so a build never holds more than `limit` versions and never
\* probes more than 180.
C28_Budgets ==
    [][\A q \in ReqIds :
          LET a == req[q]
              b == req'[q]
          IN  /\ StartsBatch(a, b) =>
                    /\ Len(b.available) < b.limit
                    /\ b.probed < maxProbes
                    /\ ~b.timeUp
              /\ b.pc # "idle" /\ ~b.hit /\ b.response.status # 502 =>
                    /\ Len(b.available) <= b.limit
                    /\ Issued(b) <= maxProbes
                    /\ b.probed <= Issued(b)
              /\ b.pc = "responded" /\ b.response.status = 200 =>
                    Len(b.response.options) <= b.limit]_vars

\* a build that stopped at the probe budget: 180 versions probed, versions
\* left, fewer unique tiles than the limit
C28_Witness ==
    /\ req[TheReq].pc = "responded"
    /\ req[TheReq].response.status = 200
    /\ req[TheReq].probed = maxProbes
    /\ Issued(req[TheReq]) = maxProbes
    /\ Len(req[TheReq].versions) > maxProbes
    /\ Len(req[TheReq].available) < req[TheReq].limit
    /\ ~req[TheReq].timeUp

\* a build that stopped at the limit in the middle of a batch, and one that
\* stopped at the limit at the end of a batch
C28_LimitMidBatch ==
    /\ req[TheReq].pc = "responded"
    /\ Len(req[TheReq].available) = req[TheReq].limit
    /\ req[TheReq].probed < Issued(req[TheReq])
    /\ ~req[TheReq].timeUp
C28_LimitAtBatchEnd ==
    /\ req[TheReq].pc = "responded"
    /\ Len(req[TheReq].available) = req[TheReq].limit
    /\ req[TheReq].probed = Issued(req[TheReq])
    /\ Issued(req[TheReq]) < Len(req[TheReq].versions)
    /\ ~req[TheReq].timeUp
\* a build that stopped because its time was up
C28_TimeUp ==
    /\ req[TheReq].pc = "responded"
    /\ req[TheReq].timeUp
    /\ Issued(req[TheReq]) < Len(req[TheReq].versions)
    /\ Len(req[TheReq].available) < req[TheReq].limit
    /\ req[TheReq].probed < maxProbes


(***************************************************************************)
(* Properties of the batches of the deduplicator (checked under            *)
(* SpecBatches).                                                           *)
(***************************************************************************)
\* the probes of a request that are issued and have not settled
ProbesInFlight(rq) ==
    IF rq.pc = "probing"
    THEN Cardinality({k \in 1..Len(rq.probes) : ~rq.probes[k].settled})
    ELSE 0

\* C29: at most 10 probes of a build are in flight; a batch is issued only in
\* the step in which the last probe of the batch before it completes, by its
\* hash or by the failure of its last retry; and the batches go through the
\* versions from the newest to the oldest.
C29_BatchesInTurn ==
    [][\A q \in ReqIds :
          LET a == req[q]
              b == req'[q]
          IN  /\ ProbesInFlight(b) <= batchSize
              /\ b.pc = "probing" => Len(b.probes) <= batchSize
              /\ (StartsBatch(a, b) /\ a.pc = "probing") =>
                    /\ ProbesInFlight(a) = 1
                    /\ b.i = a.i + batchSize
                    /\ ProbesInFlight(b) = Len(b.probes)
                    /\ \A x \in 1..Len(batchOf(a)), y \in 1..Len(batchOf(b)) :
                          newestFirst(batchOf(a)[x], batchOf(b)[y])
              /\ (StartsBatch(a, b) /\ a.pc # "probing") => b.i = 0
              /\ (a.pc = "probing" /\ b.pc = "probing" /\ b.i = a.i) =>
                    ProbesInFlight(b) <= ProbesInFlight(a)]_vars

\* the second batch is in flight; a probe of the first batch had failed after
\* its last retry
C29_Witness ==
    /\ req[TheReq].pc = "probing"
    /\ req[TheReq].i = batchSize
    /\ ProbesInFlight(req[TheReq]) = MaxExtra
    /\ req[TheReq].probed = batchSize
    /\ req[TheReq].failed = 1

\* ten probes in flight together
C29_FullBatch == ProbesInFlight(req[TheReq]) = batchSize


(***************************************************************************)
(* Properties of the probes of the deduplicator (checked under             *)
(* SpecTimeline).                                                          *)
(***************************************************************************)
\* the results the result loop has taken, by outcome
TakenFailed(rq) == {j \in 1..Len(rq.processed) : rq.processed[j].hash = NULL}
TakenHashed(rq) == {j \in 1..Len(rq.processed) : rq.processed[j].hash # NULL}
IdsOf(versions) == {versions[j].id : j \in 1..Len(versions)}

Posts(q) == req[q].pc = "idle" /\ req'[q].pc # "idle"
\* q got past the capabilities (lines 130-148) and so reached the lookup
ReachedLookup(rq) == ~(rq.pc = "responded" /\ rq.response.status = 502)

C31_ExpiredRebuilt ==
    \E q \in ReqIds :
        /\ req[q].pc = "probing"
        /\ optionsCache[req[q].key] # None
        /\ optionsCache[req[q].key][1].expiresAt = now


(***************************************************************************)
(* Properties of superseded runs of DiffViewer (checked under SpecViewer). *)
(***************************************************************************)
\* the load issues a tile request in the step from a to b: the next tile of
\* its attempt, or the first tile of a new attempt
RequestsTile(a, b) ==
    /\ b.pc = "fetch"
    /\ Len(b.tried) > Len(a.tried) \/ b.issued > a.issued

\* C32: once the cleanup of a run has set `cancelled`, the two mosaic loads
\* of the run issue no further tile request.
C32_LoadsAbandoned ==
    [][ \A r \in Runs, sd \in Sides :
            run[r].cancelled => ~RequestsTile(loader[<<r, sd>>], loader'[<<r, sd>>])
      ]_vars


\* the mask of the current run is stored and shown: `state.key === key`
MaskShown == state.diffUrl = Some(cur) /\ state.key = Some(keyOf(run[cur].inputs))

\* C33: a cancelled run stores nothing in the component state, its progress
\* callbacks included; so while the mask of the current run is stored,
\* state.key is the key of the current inputs, state.progress is null, and
\* the mask is on display.
C33_NoStaleCommit ==
    /\ "setState(progress)" \notin stale
    /\ cur \in Runs /\ state.diffUrl = Some(cur) =>
          /\ state.key = Some(keyOf(run[cur].inputs))
          /\ state.progress = None
          /\ MaskShown


(***************************************************************************)
(* Properties of GeoProofApp (checked under SpecApp).                      *)
(***************************************************************************)
\* effect e was cleaned up: a later run of the effect has replaced it
Superseded(a, e) == e < a.eff

\* C34: when the bbox, the tile zoom or the Wayback toggle changes, the
\* timeline request of the previous run of the effect is cancelled: its timer
\* never fires and its fetch is aborted; what is left of it ends without
\* touching the wayback state, startDate or endDate; and a timeline that is
\* stored was requested for the bbox and zoom of the render it is stored in.
C34_SupersededDiscarded ==
    [][ /\ \A e \in Effects :
              Superseded(app', e) =>
                  /\ app'.tl[e].pc # "timer"
                  /\ app'.tl[e].pc \in {"fetch", "json"} => app'.tl[e].aborted
        /\ \A e \in Effects :
              Superseded(app, e) /\ app'.tl[e] # app.tl[e] =>
                  /\ app'.tl[e].pc = "done"
                  /\ app'.wayback = app.wayback
                  /\ app'.startDate = app.startDate
                  /\ app'.endDate = app.endDate
        /\ app.wayback = None /\ app'.wayback # None =>
              /\ app'.showWayback
              /\ app'.wayback[1].query = [bbox |-> app'.bbox, zoom |-> app'.zoom]
      ]_vars

\* The response of a superseded request had arrived with a usable timeline
\* when the request was cancelled, its callback has ended, and the timeline
\* on display is the one of the current request, for another bbox.
C34_Witness ==
    \E e \in Effects :
        /\ Superseded(app, e)
        /\ app.tl[e].pc = "done" /\ app.tl[e].aborted
        /\ app.tl[e].res # None /\ app.tl[e].res[1].ok
        /\ Len(app.tl[e].res[1].options) >= 2
        /\ app.wayback # None
        /\ app.wayback[1].query.bbox # app.tl[e].bbox
        /\ app.wayback[1].query.bbox = app.bbox


\* C36: the catalog results in the state were searched for the bbox of the
\* current render: a response that is stored in stacS2 or stacLandsat
\* belongs to a search made for the bbox the component has at that moment.
C36_CatalogOfCurrentBbox ==
    [][ /\ app'.stacS2 # app.stacS2 /\ app'.stacS2 # None =>
              app'.stacS2[1].bbox = app'.bbox
        /\ app'.stacLandsat # app.stacLandsat /\ app'.stacLandsat # None =>
              app'.stacLandsat[1].bbox = app'.bbox
      ]_vars


\* the committed positions, in the date-ascending options
BeforeIdx(w) == findIndex(w.options, w.beforeId)
AfterIdx(w) == findIndex(w.options, w.afterId)

\* C37: while a timeline is loaded it has at least 2 options, its committed
\* beforeId and afterId are ids of options, the before snapshot comes strictly
\* earlier in the list than the after snapshot, and startDate and endDate are
\* the dates of the two, startDate <= endDate.
C37_CommittedPairOrdered ==
    app.wayback # None =>
        LET w == app.wayback[1] IN
        /\ Len(w.options) >= 2
        /\ BeforeIdx(w) >= 0 /\ AfterIdx(w) >= 0
        /\ BeforeIdx(w) < AfterIdx(w)
        /\ app.startDate = w.options[BeforeIdx(w) + 1].date
        /\ app.endDate = w.options[AfterIdx(w) + 1].date
        /\ app.startDate <= app.endDate

\* Both sliders were moved and the commit stored a pair that is neither the
\* suggested one nor at an end of the list: two neighbours sharing a date.
C37_Witness ==
    /\ app.wayback # None
    /\ ~app.commit
    /\ BeforeIdx(app.wayback[1]) = 0
    /\ AfterIdx(app.wayback[1]) = 1
    /\ Len(app.wayback[1].options) = 3
    /\ app.startDate = app.endDate
    /\ app.draftBefore = Some(0) /\ app.draftAfter = Some(1)


(***************************************************************************)
(* Properties of the publish route                                         *)
(***************************************************************************)
\* the transactions the request being served has submitted
OwnTxs == { i \in 1..Len(publish.chain) : publish.chain[i].n = publish.n }

\* C38: the create_report transaction is submitted only after the Walrus
\* upload has succeeded, and it anchors the blob id returned by that upload
\* and the SHA-256 of the stable JSON of the submitted report draft; when
\* the upload fails no transaction is submitted, and when the transaction
\* fails the error response still reports the uploaded blob id and the hash.
C38_AnchorAfterUpload ==
    /\ Cardinality(OwnTxs) <= 1
    /\ \A i \in OwnTxs :
          LET args == publish.chain[i].args IN
          /\ publish.body # None
          /\ \E b \in publish.store :
                /\ b.blobId = args.walrusBlobId
                /\ b.bytes = evidenceOf(publish.body[1])
          /\ args.reportSha256 = sha256Hex(stableStringify(publish.body[1].reportDraft))
          /\ (publish.pc = "responded" /\ publish.response.status = 502) =>
                /\ publish.response.error = "Sui anchor failed"
                /\ publish.response.walrusBlobId = args.walrusBlobId
                /\ publish.response.reportSha256 = args.reportSha256
    /\ (/\ publish.pc = "responded"
        /\ publish.response.status = 502
        /\ publish.response.error = "Walrus upload failed") => OwnTxs = {}

\* the second request's transaction has failed after its upload succeeded
C38_Witness ==
    /\ publish.pc = "responded"
    /\ publish.n = 2
    /\ publish.response.status = 502
    /\ publish.response.error = "Sui anchor failed"
    /\ publish.response.walrusBlobId = "blobB"
    /\ OwnTxs # {}


(***************************************************************************)
(* The timeline and the order in which the probes of a batch complete      *)
(***************************************************************************)
\* what the probe of a version ends with: the hash of its tile, or NULL
outcomeOf(v) == wayback.tileHash[v.id]

\* the versions, counted in catalogue order, whose outcome is a hash that no
\* earlier version has, among the first n
firstsOf(versions, n) ==
    { j \in 1..n : /\ outcomeOf(versions[j]) # NULL
                   /\ \A i \in 1..(j - 1) : outcomeOf(versions[i]) # outcomeOf(versions[j]) }

\* C35: the timeline is a function of the per-version probe outcomes only:
\* whatever the order in which the probes of a batch complete, the results
\* taken are those of a prefix of the versions in catalogue order, none of
\* the batch in flight, the versions kept are the first of each hash in that
\* order, and the response lists exactly these.
C35_OrderIndependent ==
    LET rq == req[TheReq]
        n == Len(rq.processed)
    IN  rq.pc \in {"probing", "responded"} /\ ~rq.hit /\ rq.response.status # 502 =>
        /\ n <= Len(rq.versions)
        /\ rq.pc = "probing" => n <= rq.i
        /\ \A j \in 1..n :
              rq.processed[j] = [id |-> rq.versions[j].id, hash |-> outcomeOf(rq.versions[j])]
        /\ Len(rq.available) = Cardinality(firstsOf(rq.versions, n))
        /\ \A j \in firstsOf(rq.versions, n) :
              rq.available[Cardinality(firstsOf(rq.versions, j))] = rq.versions[j]
        /\ rq.pc = "responded" =>
              /\ rq.response.status = 404 <=> firstsOf(rq.versions, n) = {}
              /\ rq.response.status = 200 =>
                    rq.response.options = sortOptions(rq.available)
              /\ ~rq.timeUp =>
                    \/ n = Len(rq.versions)
                    \/ Len(rq.available) >= rq.limit
                    \/ n >= maxProbes

\* in the second batch a later probe has completed with a hash while an
\* earlier one is still out
C35_Witness ==
    LET rq == req[TheReq] IN
    /\ rq.pc = "probing"
    /\ rq.i = batchSize
    /\ Len(rq.processed) = batchSize
    /\ Len(rq.available) >= 2
    /\ Len(rq.probes) = 2
    /\ rq.probes[2].settled /\ rq.probes[2].hash # NULL
    /\ ~rq.probes[1].settled


(***************************************************************************)
(* Properties of the reports search                                        *)
(***************************************************************************)
\* the request has its response in this step
SearchResponds == search.req[TheSearch].pc # "responded" /\ search'.req[TheSearch].pc = "responded"

\* C39: a request queries the Sui transactions at most 3 times and queries
\* again only after an error that isTooManyRequests takes for a 429; any
\* other error, or a third 429, ends the request with 502 or 429; an error
\* response leaves the cache as it is; the cache changes only by the entry
\* of a successful response under the key of its request, and an entry is
\* served only while it is younger than 15 s, to a request of the same key.
C39_RetryAndCache ==
    [][ LET rq == search.req[TheSearch]
            rq2 == search'.req[TheSearch]
        IN  /\ rq2.queries <= 3
            /\ (rq.queries > 0 /\ rq2.queries > rq.queries) =>
                  /\ Len(rq.errors) = rq.queries
                  /\ isTooManyRequests(rq.errors[Len(rq.errors)])
            /\ Len(rq2.errors) > Len(rq.errors) =>
                  LET e == rq2.errors[Len(rq2.errors)] IN
                  IF isTooManyRequests(e) /\ Len(rq2.errors) < 3
                  THEN rq2.pc = "sleep"
                  ELSE /\ rq2.pc = "responded"
                       /\ rq2.response.status = IF isTooManyRequests(e) THEN 429 ELSE 502
            /\ (SearchResponds /\ rq2.response.status # 200) => search'.cache = search.cache
            /\ search'.cache # search.cache =>
                  /\ SearchResponds
                  /\ ~rq2.hit
                  /\ rq2.response.status = 200
                  /\ search'.cache = [search.cache EXCEPT
                        ![rq2.key] = Some([ts |-> search.now, value |-> rq2.response])]
            /\ (SearchResponds /\ rq2.hit) =>
                  /\ search.cache[rq2.key] # None
                  /\ search.cache[rq2.key][1].value = rq2.response
                  /\ rq2.response.status = 200
                  /\ search.now - search.cache[rq2.key][1].ts < CACHE_TTL_MS
                  /\ rq2.key = <<"testnet", rq2.bbox, None, 20>>
                  /\ rq2.response.bbox = rq2.bbox
      ]_vars

\* a third 429 has ended a request whose key has an entry too old to serve:
\* the entry is still there
C39_Witness ==
    LET rq == search.req[TheSearch] IN
    /\ rq.pc = "responded"
    /\ rq.queries = 3
    /\ Len(rq.errors) = 3
    /\ rq.response.status = 429
    /\ search.cache[rq.key] # None
    /\ search.now - search.cache[rq.key][1].ts >= CACHE_TTL_MS

\* C40: with a valid bbox filter every item of the response has a stored
\* bbox that parses to four finite numbers and intersects the filter.
C40_OnlyMatchingItems ==
    LET rq == search.req[TheSearch] IN
    (rq.pc = "responded" /\ rq.response.status = 200 /\ rq.bbox # None) =>
        \A i \in 1..Len(rq.response.items) :
            /\ rq.response.items[i].bboxParsed # None
            /\ bboxIntersects(rq.bbox[1], rq.response.items[i].bboxParsed[1])

\* what the item loop does keep: an item whose stored bbox parses
\* intersects the filter
C40_ParsedItemsMatch ==
    LET rq == search.req[TheSearch] IN
    (rq.pc = "responded" /\ rq.response.status = 200 /\ rq.bbox # None) =>
        \A i \in 1..Len(rq.response.items) :
            rq.response.items[i].bboxParsed # None =>
                bboxIntersects(rq.bbox[1], rq.response.items[i].bboxParsed[1])

====
